---- MODULE Spec2Model ----
(***************************************************************************)
(* The expression interpreter of @deepr/runtime (runtime.ts):              *)
(* invokeExpression walks an expression tree against a host object graph,  *)
(* staying synchronous while every value it meets is synchronous and       *)
(* continuing in promise callbacks otherwise.                              *)
(*                                                                         *)
(* One action is one turn of the JavaScript event loop: the call of        *)
(* invokeExpression, or the settling of one pending promise followed by    *)
(* everything its callbacks run synchronously.                             *)
(***************************************************************************)
EXTENDS Integers, Sequences, FiniteSets, TLC

VARIABLES
    rootTarget,   \* the target given to invokeExpression
    expression,   \* the expression given to invokeExpression
    options,      \* [authorizer: "none" | "sync" | "async", errorHandler: BOOLEAN]
    ret,          \* what the call returned: "none" (not called yet), "value", "promise", "throw"
    task,         \* the evaluation: a final outcome, or the tree of pending promises
    orphans,      \* branches whose result nobody awaits any more (there is no cancellation)
    counter,      \* the host's shared counter (brokenCounter of the 'Parallel queries' test)
    log,          \* history: what the interpreter asked of the host, in order
    givenQuery,   \* the query given to parseQuery
    givenOptions, \* the options given to parseQuery
    parsed        \* what parseQuery returned or threw (NoExpr: not called yet)

vars == <<rootTarget, expression, options, ret, task, orphans, counter, log,
          givenQuery, givenOptions, parsed>>

\* ------------------------------------------------------------------ bounds

\* longest list of sibling queries (array elements, named children) drawn by Init
MaxLen == 2

\* ------------------------------------------------------------------ values

Undefined == [t |-> "undefined"]
Str(s) == [t |-> "string", s |-> s]
\* an object: its entries in insertion order
Obj(f) == [t |-> "object", f |-> f]
Entry(k, v) == [k |-> k, v |-> v]
Arr(items) == [t |-> "array", items |-> items]
\* a promise the host returns: it fulfils with v (ok) or rejects with Str(error);
\* settling it writes w to the shared counter when w >= 0
Promise(ok, v, w) == [t |-> "promise", ok |-> ok, v |-> v, w |-> w]
\* a host method: what a call does
Fn(how, async, v) == [t |-> "function", how |-> how, async |-> async, v |-> v]

IsPromise(v) == v.t = "promise"

\* target[key]
Get(target, key) ==
    IF target.t = "object" /\ \E i \in 1..Len(target.f) : target.f[i].k = key
    THEN target.f[CHOOSE i \in 1..Len(target.f) : target.f[i].k = key].v
    ELSE Undefined

\* ------------------------------------------------------------------ the host graph

Inception ==
    Obj(<<Entry("title", Str("Inception")), Entry("rating", Promise(TRUE, Str("8.8"), -1))>>)
TheMatrix ==
    Obj(<<Entry("title", Str("The Matrix")), Entry("rating", Promise(TRUE, Str("8.7"), -1))>>)

\* the target of every evaluation: the objects of the test suite rolled into one
root ==
    Obj(<<
        Entry("username", Str("steve")),
        Entry("password", Str("secret")),
        Entry("movie", Promise(TRUE, Inception, -1)),
        Entry("movies", Arr(<<Inception, TheMatrix>>)),
        Entry("items", Arr(<<Inception, Undefined, TheMatrix>>)),
        Entry("lazyMovies", Arr(<<Promise(TRUE, Inception, -1), Promise(TRUE, TheMatrix, -1)>>)),
        Entry("publicMethod", Fn("return", FALSE, Str("public information"))),
        Entry("privateMethod", Fn("return", FALSE, Str("private information"))),
        Entry("count", Fn("return", TRUE, Str("2"))),
        Entry("syncMethod", Fn("throw", FALSE, Str("sync error"))),
        Entry("asyncMethod", Fn("throw", TRUE, Str("async error"))),
        Entry("increment", Fn("increment", TRUE, Undefined))
    >>)

RECURSIVE Sync(_)
\* the same value with nothing asynchronous in it: each promise replaced by what it
\* resolves to, each method returning or throwing at once
Sync(v) ==
    IF v.t = "promise" THEN Sync(v.v)
    ELSE IF v.t = "function" THEN [v EXCEPT !.async = FALSE]
    ELSE IF v.t = "object" THEN Obj([i \in 1..Len(v.f) |-> Entry(v.f[i].k, Sync(v.f[i].v))])
    ELSE IF v.t = "array" THEN Arr([i \in 1..Len(v.items) |-> Sync(v.items[i])])
    ELSE v

\* the authorizer of the model: it refuses these (key, operation) pairs
Denied == {<<"password", "get">>, <<"privateMethod", "call">>}

\* ------------------------------------------------------------------ expressions

NoExpr == [kind |-> "none"]
NoElements == [k |-> "none"]
Index(i) == [k |-> "index", i |-> i]
Range(r) == [k |-> "range", r |-> r]

\* a SingleExpression; nested is the entries of nestedExpressions in insertion order
\* (<<>>: absent), next is nextExpression (NoExpr: absent), sourceValue Undefined: absent
Node(sourceKey, isOptional, params, uce, nested, next) ==
    [kind |-> "node", sourceKey |-> sourceKey, isOptional |-> isOptional,
     params |-> params, sourceValue |-> Undefined, useCollectionElements |-> uce,
     nested |-> nested, next |-> next]

Attr(key) == Node(key, FALSE, FALSE, NoElements, <<>>, NoExpr)
Call(key) == Node(key, FALSE, TRUE, NoElements, <<>>, NoExpr)
Optional(e) == [e EXCEPT !.isOptional = TRUE]
With(e, nested) == [e EXCEPT !.nested = nested]
\* a plain array expression, and one tagged isParallel
Sequential(els) == [kind |-> "seq", els |-> els]
Parallel(els) == [kind |-> "par", els |-> els]

\* ------------------------------------------------------------------ outcomes and pending work

\* a returned value, a returned {[breakSymbol]: v}, a thrown error or rejection
Val(v) == [k |-> "val", v |-> v]
Brk(v) == [k |-> "brk", v |-> v]
Err(e) == [k |-> "err", e |-> e]
NoTask == [k |-> "none"]
IsFinal(t) == t.k \in {"val", "brk", "err"}

\* the member of a one-member set: binds a computed value once
Only(S) == CHOOSE x \in S : TRUE

\* the host as the interpreter changes it within one turn
Host(c, l) == [counter |-> c, log |-> l, orph |-> <<>>]
Emit(h, ev, pid, key, op) ==
    [h EXCEPT !.log = Append(@, [ev |-> ev, pid |-> pid, key |-> key, op |-> op])]

\* What a piece of the interpreter does next: return an outcome (or a pending task) to
\* its caller, call _invokeExpression, or run a map / a parallel array
Ret(o) == [k |-> "ret", o |-> o]
CallExpr(target, e, m, pid) == [k |-> "call", target |-> target, e |-> e, m |-> m, pid |-> pid]
Enter(t) == [k |-> "enter", t |-> t]
Push(t, call) == [k |-> "push", t |-> t, call |-> call]
\* ... together with the host it leaves
C(ctl, h) == [ctl |-> ctl, h |-> h]

\* the errorHandler of the model, as in test('errorHandler')
HandlerResult(error) == Obj(<<Entry("__error", Str(error))>>)

\* (mutant) the handler's value is a break wherever the node stands
onRejected_Break(error, opt, m, pid, h) ==
    LET h1 == Emit(h, "error", pid, error, "")
    IN  IF ~opt.errorHandler
        THEN C(Ret(Err(error)), h1)
        ELSE C(Ret(Brk(HandlerResult(error))), Emit(h1, "errorHandler", pid, error, ""))
\* (mutant) the handler's value never ends the map the node is a member of
onRejected_NoBreak(error, opt, m, pid, h) ==
    LET h1 == Emit(h, "error", pid, error, "")
    IN  IF ~opt.errorHandler
        THEN C(Ret(Err(error)), h1)
        ELSE C(Ret(Val(HandlerResult(error))), Emit(h1, "errorHandler", pid, error, ""))
\* the rejection callback of possiblyAsync.invoke in _invokeExpression
onRejected(error, opt, m, pid, h) ==
    LET h1 == Emit(h, "error", pid, error, "")
    IN  IF ~opt.errorHandler
        THEN C(Ret(Err(error)), h1)
        ELSE LET result == HandlerResult(error)
                 h2 == Emit(h1, "errorHandler", pid, error, "")
             IN  C(Ret(IF m THEN Brk(result) ELSE Val(result)), h2)

\* ------------------------------------------------------------------ collections

Length(collection) == IF collection.t = "array" THEN Len(collection.items) ELSE -1
\* (mutant) an index outside the collection yields its nearest element
At_Nearest(collection, index) ==
    IF collection.t = "array" /\ Len(collection.items) > 0
    THEN collection.items[IF index < 1 THEN 1
                          ELSE IF index > Len(collection.items) THEN Len(collection.items)
                          ELSE index]
    ELSE Undefined
\* collection[index]
At(collection, index) ==
    IF collection.t = "array" /\ index \in 1..Len(collection.items)
    THEN collection.items[index]
    ELSE Undefined
Clamp(i, n) == IF i < 0 THEN (IF n + i < 0 THEN 0 ELSE n + i) ELSE (IF i > n THEN n ELSE i)
\* (mutant) the slice with the element at its end index
Slice_Inclusive(items, indexes) ==
    LET n == Len(items)
        from == IF Len(indexes) >= 1 THEN Clamp(indexes[1], n) ELSE 0
        to == IF Len(indexes) >= 2 THEN Clamp(indexes[2] + 1, n) ELSE n
    IN  IF from >= to THEN <<>> ELSE SubSeq(items, from + 1, to)
\* Array.prototype.slice(...indexes), indexes zero-based, end exclusive
Slice(items, indexes) ==
    LET n == Len(items)
        from == IF Len(indexes) >= 1 THEN Clamp(indexes[1], n) ELSE 0
        to == IF Len(indexes) >= 2 THEN Clamp(indexes[2], n) ELSE n
    IN  IF from >= to THEN <<>> ELSE SubSeq(items, from + 1, to)

\* ------------------------------------------------------------------ the interpreter

\* the results of a sequential map: an array, or for mapValues an object
Results(mode, acc) == IF mode = "nested" THEN Obj(acc) ELSE Arr(acc)

\* a possiblyAsync.map / mapValues in progress: the members left, the results so far,
\* the member being evaluated (cur: its outcome or its pending task)
MapTask(mode, todo, m, pid) ==
    [k |-> "map", mode |-> mode, todo |-> todo, acc |-> <<>>, cur |-> NoTask,
     item |-> NoTask, n |-> 0, async |-> FALSE, m |-> m, pid |-> pid]
Item(key, target, e) == [key |-> key, target |-> target, e |-> e]

\* a parallel array in progress: the elements started so far (ch), the one whose
\* result is being computed (hole)
AllTask(target, els, pid) ==
    [k |-> "all", target |-> target, els |-> els, ch |-> <<>>, hole |-> 0, pid |-> pid]

\* the body of the callback of possiblyAsync(target, ...) in __invokeExpression
descend(target0, e, opt, m, pid, h) ==
    LET target == IF e.sourceValue # Undefined THEN e.sourceValue ELSE target0
        nestedItems(t) == [i \in 1..Len(e.nested) |-> Item(e.nested[i].k, t, e.nested[i].v)]
        kids(t) ==
            IF e.next # NoExpr
            THEN C(CallExpr(t, e.next, FALSE, pid \o <<0>>), h)
            ELSE C(Enter(MapTask("nested", nestedItems(t), m, pid)), h)
        uce == e.useCollectionElements
    IN  IF e.nested = <<>> /\ e.next = NoExpr THEN C(Ret(Val(target)), h)
        ELSE IF target = Undefined
        THEN IF e.isOptional THEN C(Ret(Val(Undefined)), h)
             ELSE onRejected("Cannot execute a query on undefined", opt, m, pid, h)
        ELSE IF uce.k = "index"
        THEN LET index == IF uce.i < 0 THEN Length(target) + uce.i ELSE uce.i
                 item == At(target, index + 1)
             IN  IF item = Undefined
                 THEN IF e.isOptional THEN C(Ret(Val(Undefined)), h)
                      ELSE onRejected("Cannot execute a query on a missing collection item",
                                      opt, m, pid, h)
                 ELSE kids(item)
        ELSE IF uce.k = "range"
        THEN IF target.t # "array"
             THEN onRejected("TypeError", opt, m, pid, h)
             ELSE LET collection == Slice(target.items, uce.r)
                      sub == [e EXCEPT !.sourceKey = "", !.isOptional = FALSE,
                                       !.params = FALSE, !.sourceValue = Undefined,
                                       !.useCollectionElements = NoElements]
                      todo == [i \in 1..Len(collection) |-> Item("", collection[i], sub)]
                  IN  C(Enter(MapTask("range", todo, m, pid)), h)
        ELSE kids(target)

\* possiblyAsync(target, ...) in __invokeExpression: wait for a promise, else go on
awaitTarget(target, e, opt, m, pid, h) ==
    IF IsPromise(target)
    THEN C(Ret([k |-> "wval", p |-> target, e |-> e, m |-> m, pid |-> pid]), h)
    ELSE descend(target, e, opt, m, pid, h)

\* a pending promise settles: the host's write lands, then the callback or the rejection
targetSettled(t, opt, h) ==
    LET h1 == IF t.p.w >= 0 THEN [h EXCEPT !.counter = t.p.w] ELSE h
    IN  IF t.p.ok
        THEN descend(t.p.v, t.e, opt, t.m, t.pid, h1)
        ELSE onRejected(t.p.v.s, opt, t.m, t.pid, h1)

\* method.call(target, ...params, context)
callMethod(method, e, opt, m, pid, h) ==
    IF method.t # "function" THEN onRejected("TypeError", opt, m, pid, h)
    ELSE LET h1 == Emit(h, "call", pid, e.sourceKey, "call")
             returned ==
                 IF method.how = "return"
                 THEN IF method.async THEN Promise(TRUE, method.v, -1) ELSE method.v
                 ELSE IF method.how = "throw"
                 THEN Promise(FALSE, method.v, -1)
                 ELSE \* increment: read the counter, sleep, write back the value read plus one
                      IF method.async THEN Promise(TRUE, Undefined, h.counter + 1)
                      ELSE Undefined
         IN  IF method.how = "throw" /\ ~method.async
             THEN onRejected(method.v.s, opt, m, pid, h1)
             ELSE awaitTarget(returned, e, opt, m, pid,
                              IF method.how = "increment" /\ ~method.async
                              THEN [h1 EXCEPT !.counter = h.counter + 1]
                              ELSE h1)

\* the authorizer of the model
authorizer(key, operation) == <<key, operation>> \notin Denied

\* (mutant) the attribute's value is yielded whatever the authorizer answered
attributeAllowed_Unchecked(isAllowed, value, e, opt, m, pid, h) ==
    awaitTarget(value, e, opt, m, pid, Emit(h, "get", pid, e.sourceKey, "get"))
\* (mutant) a refused read throws past the errorHandler
attributeAllowed_Unhandled(isAllowed, value, e, opt, m, pid, h) ==
    IF ~isAllowed
    THEN C(Ret(Err("Cannot get the value of an attribute that is not allowed")),
           Emit(h, "error", pid, "Cannot get the value of an attribute that is not allowed", ""))
    ELSE awaitTarget(value, e, opt, m, pid, Emit(h, "get", pid, e.sourceKey, "get"))
\* the callback of possiblyAsync(evaluateAuthorizer(...), ...) in evaluateAttribute
attributeAllowed(isAllowed, value, e, opt, m, pid, h) ==
    IF ~isAllowed
    THEN onRejected("Cannot get the value of an attribute that is not allowed", opt, m, pid, h)
    ELSE awaitTarget(value, e, opt, m, pid, Emit(h, "get", pid, e.sourceKey, "get"))

\* the callback of possiblyAsync(evaluateAuthorizer(...), ...) in evaluateMethod
methodAllowed(isAllowed, method, e, opt, m, pid, h) ==
    IF ~isAllowed
    THEN onRejected("Cannot execute a method that is not allowed", opt, m, pid, h)
    ELSE callMethod(method, e, opt, m, pid, h)

allowed(isAllowed, operation, value, e, opt, m, pid, h) ==
    IF operation = "get"
    THEN attributeAllowed(isAllowed, value, e, opt, m, pid, h)
    ELSE methodAllowed(isAllowed, value, e, opt, m, pid, h)

\* evaluateAuthorizer and the possiblyAsync around it: true without an authorizer,
\* else the authorizer's answer, at once or through a promise
evaluateAuthorizer(operation, value, e, opt, m, pid, h) ==
    IF opt.authorizer = "none" THEN allowed(TRUE, operation, value, e, opt, m, pid, h)
    ELSE LET h1 == Emit(h, "authorize", pid, e.sourceKey, operation)
             isAllowed == authorizer(e.sourceKey, operation)
         IN  IF opt.authorizer = "async"
             THEN C(Ret([k |-> "wauth", isAllowed |-> isAllowed, operation |-> operation,
                         value |-> value, e |-> e, m |-> m, pid |-> pid]), h1)
             ELSE allowed(isAllowed, operation, value, e, opt, m, pid,
                          Emit(h1, IF isAllowed THEN "allowed" ELSE "refused",
                               pid, e.sourceKey, operation))

\* the authorizer's promise settles
authorizerSettled(t, opt, h) ==
    allowed(t.isAllowed, t.operation, t.value, t.e, opt, t.m, t.pid,
            Emit(h, IF t.isAllowed THEN "allowed" ELSE "refused",
                 t.pid, t.e.sourceKey, t.operation))

evaluateAttribute(value, e, opt, m, pid, h) ==
    evaluateAuthorizer("get", value, e, opt, m, pid,
                       Emit(h, "evaluateAttribute", pid, e.sourceKey, "get"))

\* (mutant) a missing method is an error whether the key is optional or not
evaluateMethod_Strict(method, e, opt, m, pid, h) ==
    IF method = Undefined
    THEN onRejected("Couldn't find a method matching the key", opt, m, pid,
                    Emit(h, "evaluateMethod", pid, e.sourceKey, "missing"))
    ELSE evaluateAuthorizer("call", method, e, opt, m, pid,
                            Emit(h, "evaluateMethod", pid, e.sourceKey, "call"))
evaluateMethod(method, e, opt, m, pid, h) ==
    IF method = Undefined
    THEN LET h1 == Emit(h, "evaluateMethod", pid, e.sourceKey, "missing")
         IN  IF e.isOptional THEN awaitTarget(Undefined, e, opt, m, pid, h1)
             ELSE onRejected("Couldn't find a method matching the key", opt, m, pid, h1)
    ELSE evaluateAuthorizer("call", method, e, opt, m, pid,
                            Emit(h, "evaluateMethod", pid, e.sourceKey, "call"))

evaluateKey(target, e, opt, m, pid, h) ==
    LET value == Get(target, e.sourceKey)
    IN  IF ~e.params THEN evaluateAttribute(value, e, opt, m, pid, h)
        ELSE evaluateMethod(value, e, opt, m, pid, h)

\* (mutant) a node that has a sourceValue leaves its key unresolved
__invokeExpression_Unresolved(target, e, opt, m, pid, h) ==
    IF e.sourceKey # "" /\ e.sourceValue = Undefined
    THEN evaluateKey(target, e, opt, m, pid, h)
    ELSE awaitTarget(target, e, opt, m, pid, h)
__invokeExpression(target, e, opt, m, pid, h) ==
    IF e.sourceKey # "" THEN evaluateKey(target, e, opt, m, pid, h)
    ELSE awaitTarget(target, e, opt, m, pid, h)

\* (mutant) a plain array is evaluated like a parallel one
_invokeExpression_Parallel(target, e, opt, m, pid, h) ==
    IF e.kind \in {"par", "seq"} THEN C(Enter(AllTask(target, e.els, pid)), h)
    ELSE __invokeExpression(target, e, opt, m, pid, h)
\* (mutant) a parallel array is evaluated like a plain one
_invokeExpression_Sequential(target, e, opt, m, pid, h) ==
    IF e.kind \in {"par", "seq"}
    THEN C(Enter(MapTask("seq", [i \in 1..Len(e.els) |-> Item("", target, e.els[i])],
                         FALSE, pid)), h)
    ELSE __invokeExpression(target, e, opt, m, pid, h)
_invokeExpression(target, e, opt, m, pid, h) ==
    IF e.kind = "par" THEN C(Enter(AllTask(target, e.els, pid)), h)
    ELSE IF e.kind = "seq"
    THEN C(Enter(MapTask("seq", [i \in 1..Len(e.els) |-> Item("", target, e.els[i])],
                         FALSE, pid)), h)
    ELSE __invokeExpression(target, e, opt, m, pid, h)

\* possiblyAsync.map / possiblyAsync.mapValues: one member at a time, the next one
\* only once the current one has a result; a break result ends the map. What is
\* mapped over is awaited when it is a promise: an element of a collection is, the
\* target that the members of an array or the children of a node share is not.
map(t, h) ==
    LET put(v) == Append(t.acc, IF t.mode = "nested" THEN Entry(t.item.key, v) ELSE v)
        mapper(item) ==
            LET n == t.n + 1
            IN  C(Push([t EXCEPT !.item = item, !.n = n, !.todo = Tail(t.todo),
                                 !.async = FALSE],
                       CallExpr(item.target, item.e, TRUE, t.pid \o <<n>>)),
                  Emit(h, "start", t.pid \o <<n>>, t.mode, ""))
    IN  IF IsFinal(t.cur)
        THEN LET h1 == Emit(h, "end", t.pid \o <<t.n>>, t.mode,
                            IF t.async THEN "async" ELSE "sync")
             IN  IF t.cur.k = "err" THEN C(Ret(t.cur), h1)
                 ELSE IF t.cur.k = "brk" THEN C(Ret(Val(Results(t.mode, put(t.cur.v)))), h1)
                 ELSE C(Enter([t EXCEPT !.acc = put(t.cur.v), !.cur = NoTask]), h1)
        ELSE IF t.cur = NoTask
        THEN IF t.todo = <<>> THEN C(Ret(Val(Results(t.mode, t.acc))), h)
             ELSE IF t.mode = "range" /\ IsPromise(Head(t.todo).target)
             THEN C(Ret([t EXCEPT !.cur = [k |-> "witem", p |-> Head(t.todo).target]]), h)
             ELSE mapper(Head(t.todo))
        ELSE C(Ret([t EXCEPT !.async = TRUE]), h)

\* a collection element that is a promise settles (possiblyAsync.forEach waits for it)
itemSettled(t, opt, h) ==
    IF t.cur.p.ok
    THEN C(Enter([t EXCEPT !.cur = NoTask,
                           !.todo = <<[Head(t.todo) EXCEPT !.target = t.cur.p.v]>>
                                      \o Tail(t.todo)]), h)
    ELSE onRejected(t.cur.p.v.s, opt, t.m, t.pid, h)

\* nobody awaits these branches any more; they run on
Orphan(h, ch) == [h EXCEPT !.orph = @ \o SelectSeq(ch, LAMBDA c : ~IsFinal(c))]

\* possiblyAsync.all(expression.map(...)): every element is started, in order, whatever
\* the earlier ones returned; then the values when none is a promise, else Promise.all
\* (mutant) Promise.all whatever the elements returned: always a promise
all_Promise(t, h) ==
    IF Len(t.ch) < Len(t.els)
    THEN LET i == Len(t.ch) + 1
         IN  C(Push([t EXCEPT !.hole = i], CallExpr(t.target, t.els[i], FALSE, t.pid \o <<i>>)),
               Emit(h, "start", t.pid \o <<i>>, "par", ""))
    ELSE C(Ret(t), h)
all(t, h) ==
    IF Len(t.ch) < Len(t.els)
    THEN LET i == Len(t.ch) + 1
         IN  C(Push([t EXCEPT !.hole = i], CallExpr(t.target, t.els[i], FALSE, t.pid \o <<i>>)),
               Emit(h, "start", t.pid \o <<i>>, "par", ""))
    ELSE IF \A i \in 1..Len(t.ch) : t.ch[i].k = "val"
    THEN C(Ret(Val(Arr([i \in 1..Len(t.ch) |-> t.ch[i].v]))), h)
    ELSE C(Ret(t), h)

\* an element of a parallel array has returned (o), synchronously while the elements
\* are being started, or later as its promise settles: a throw leaves expression.map
\* at once, and Promise.all rejects on the first rejection
allReturned(t, o, h) ==
    LET starting == t.hole > Len(t.ch)
        ch == IF starting THEN Append(t.ch, o) ELSE [t.ch EXCEPT ![t.hole] = o]
        h1 == IF IsFinal(o)
              THEN Emit(h, "end", t.pid \o <<t.hole>>, "par",
                        IF starting THEN "sync" ELSE "async")
              ELSE h
    IN  IF o.k = "err" THEN C(Ret(o), Orphan(h1, ch))
        ELSE C(Enter([t EXCEPT !.ch = ch]), h1)

\* ------------------------------------------------------------------ one turn of the event loop

\* the interpreter at work: what it does next, who awaits the result (innermost first)
Machine(ctl, stack, h) == [ctl |-> ctl, stack |-> stack, h |-> h]
Halted(s) == s.ctl.k = "ret" /\ s.stack = <<>>

step(s, opt) ==
    LET ctl == s.ctl
        go(c, stack) == Machine(c.ctl, stack, c.h)
    IN  IF ctl.k = "call"
        THEN go(_invokeExpression(ctl.target, ctl.e, opt, ctl.m, ctl.pid, s.h), s.stack)
        ELSE IF ctl.k = "enter"
        THEN go(IF ctl.t.k = "map" THEN map(ctl.t, s.h) ELSE all(ctl.t, s.h), s.stack)
        ELSE IF ctl.k = "push"
        THEN Machine(ctl.call, <<ctl.t>> \o s.stack, s.h)
        ELSE \* a result comes back to the map or the parallel array that awaits it
             LET t == Head(s.stack)
             IN  IF t.k = "map"
                 THEN Machine(Enter([t EXCEPT !.cur = ctl.o]), Tail(s.stack), s.h)
                 ELSE go(allReturned(t, ctl.o, s.h), Tail(s.stack))

RECURSIVE steps(_, _, _)
\* at most 2^n steps from s0, stopping where nothing is left to do but wait
steps(s0, opt, n) ==
    IF Halted(s0) THEN s0
    ELSE IF n = 0 THEN step(s0, opt)
    ELSE Only({ steps(s1, opt, n - 1) : s1 \in {steps(s0, opt, n - 1)} })

RECURSIVE run(_, _)
\* synchronous execution up to the point where nothing is left to do but wait
run(s0, opt) == Only({ IF Halted(s) THEN s ELSE run(s, opt) : s \in {steps(s0, opt, 6)} })

\* ------------------------------------------------------------------ pending promises

\* where the pending promises of a task are
RECURSIVE Pending(_)
Pending(t) ==
    IF t.k \in {"wauth", "wval"} THEN {<<>>}
    ELSE IF t.k = "map"
    THEN IF t.cur.k = "witem" THEN {<<1>>} ELSE {<<1>> \o p : p \in Pending(t.cur)}
    ELSE IF t.k = "all"
    THEN UNION {{<<i>> \o p : p \in Pending(t.ch[i])} : i \in 1..Len(t.ch)}
    ELSE {}

RECURSIVE Open(_, _, _)
\* the pending promise at path, and who awaits it (innermost first)
Open(t, path, stack) ==
    IF t.k = "map" /\ t.cur.k # "witem" THEN Open(t.cur, Tail(path), <<t>> \o stack)
    ELSE IF t.k = "all"
    THEN Open(t.ch[Head(path)], Tail(path), <<[t EXCEPT !.hole = Head(path)]>> \o stack)
    ELSE [leaf |-> t, stack |-> stack]

PendingKind(t, path) ==
    LET leaf == Open(t, path, <<>>).leaf IN IF leaf.k = "map" THEN "witem" ELSE leaf.k

\* the promise at path settles and its callbacks run, up to the next pending promise
settle(t, path, opt, h) ==
    LET at == Open(t, path, <<>>)
        c == IF at.leaf.k = "wauth" THEN authorizerSettled(at.leaf, opt, h)
             ELSE IF at.leaf.k = "wval" THEN targetSettled(at.leaf, opt, h)
             ELSE itemSettled(at.leaf, opt, h)
    IN  run(Machine(c.ctl, at.stack, c.h), opt)

\* invokeExpression(target, expression, options), up to the first pending promise
invokeExpression(target, e, opt, h) ==
    run(Machine(CallExpr(target, e, FALSE, <<>>), <<>>, h), opt)

RECURSIVE Complete(_, _)
\* the evaluation run to its end, the pending promises settling oldest awaiter first
Complete(r0, opt) ==
    Only({ IF Pending(r.ctl.o) = {} THEN r
           ELSE Complete(settle(r.ctl.o, CHOOSE p \in Pending(r.ctl.o) : TRUE, opt, r.h), opt) :
           r \in {r0} })

\* the result of invokeExpression(target, e, opt) once settled, with a fresh host
Result(target, e, opt) == Complete(invokeExpression(target, e, opt, Host(0, <<>>)), opt).ctl.o

\* ------------------------------------------------------------------ queries (parser.ts)

Bool(b) == [t |-> "boolean", b |-> b]
True == Bool(TRUE)
Num(n) == [t |-> "number", n |-> n]
\* /^prefix/
RegExp(prefix) == [t |-> "regexp", prefix |-> prefix]

\* A key of a query is the sequence of its lexemes: each run of letters is one
\* lexeme, every other character is a lexeme by itself ("_id?=>id" is
\* <<"_", "id", "?", "=", ">", "id">>), so that two keys are the same string
\* exactly when they are the same sequence.
endsWith(key, c) == Len(key) > 0 /\ key[Len(key)] = c
startsWith(key, prefix) ==
    Len(key) >= Len(prefix) /\ SubSeq(key, 1, Len(prefix)) = prefix
Arrow(key, i) == i < Len(key) /\ key[i] = "=" /\ key[i + 1] = ">"

RECURSIVE split(_)
\* key.split('=>')
split(key) ==
    IF \E i \in 1..Len(key) : Arrow(key, i)
    THEN LET i == CHOOSE i \in 1..Len(key) :
                      Arrow(key, i) /\ \A j \in 1..(i - 1) : ~Arrow(key, j)
         IN  <<SubSeq(key, 1, i - 1)>> \o split(SubSeq(key, i + 2, Len(key)))
    ELSE <<key>>

\* a thrown Error
Error(message) == [kind |-> "error", message |-> message]

parseSourceKey(sourceKey) ==
    IF endsWith(sourceKey, "?")
    THEN [sourceKey |-> SubSeq(sourceKey, 1, Len(sourceKey) - 1), isOptional |-> TRUE]
    ELSE [sourceKey |-> sourceKey, isOptional |-> FALSE]

parseKey(key) ==
    LET parts == split(key)
        source == parseSourceKey(parts[1])
    IN  IF Len(parts) = 1
        THEN [kind |-> "key", sourceKey |-> source.sourceKey,
              targetKey |-> source.sourceKey, isOptional |-> source.isOptional]
        ELSE IF Len(parts) = 2
        THEN [kind |-> "key", sourceKey |-> source.sourceKey,
              targetKey |-> parts[2], isOptional |-> source.isOptional]
        ELSE Error("Invalid key found")

\* patterns.some(...)
testKey(key, patterns) ==
    \E i \in 1..Len(patterns) :
        IF patterns[i].t = "string" THEN patterns[i].s = key
        ELSE startsWith(key, patterns[i].prefix)

\* Object.getOwnPropertyNames of the objects _addKeys walks through
ObjectPrototype ==
    { <<"constructor">>, <<"hasOwnProperty">>, <<"toString">>, <<"valueOf">>,
      <<"_", "_", "proto", "_", "_">> }
FunctionPrototype ==
    { <<"length">>, <<"name">>, <<"arguments">>, <<"caller">>, <<"constructor">>,
      <<"apply">>, <<"bind">>, <<"call">>, <<"toString">> }
OwnNamesOfFunction == { <<"length">>, <<"name">>, <<"prototype">> }

\* the names _addKeys collects from object and its prototype chain
_addKeys(chain) ==
    { key \in UNION chain : ~(key = <<"name">> \/ key = <<"length">>) }

\* obj, func and Obj, each with its prototype chain
getBuiltInKeys ==
    _addKeys({{}, {<<"constructor">>}, ObjectPrototype})
    \cup _addKeys({OwnNamesOfFunction, FunctionPrototype, ObjectPrototype})
    \cup _addKeys({OwnNamesOfFunction, FunctionPrototype, ObjectPrototype})

\* the local variables of _parseQuery's loop over the entries of a query object
Locals ==
    [kind |-> "locals", params |-> Undefined, useCollectionElements |-> Undefined,
     sourceValue |-> Undefined, nestedExpressions |-> Undefined,
     nextExpression |-> Undefined]

IsNumber(value) == value.t = "number"

\* object[key] = value; the key __proto__ names the prototype, not a property
Set(object, key, value) ==
    IF key = <<"_", "_", "proto", "_", "_">> THEN object
    ELSE IF \E i \in 1..Len(object.f) : object.f[i].k = key
    THEN Obj([i \in 1..Len(object.f) |->
                 IF object.f[i].k = key THEN Entry(key, value) ELSE object.f[i]])
    ELSE Obj(Append(object.f, Entry(key, value)))

\* acceptKeys read for the built-in keys too
ignored_UnlessAccepted(sourceKey, opts) ==
    /\ \/ opts.ignoreBuiltInKeys /\ sourceKey \in getBuiltInKeys
       \/ testKey(sourceKey, opts.ignoreKeys)
    /\ ~testKey(sourceKey, opts.acceptKeys)

\* acceptKeys left unread
ignored_WhateverIsAccepted(sourceKey, opts) ==
    \/ opts.ignoreBuiltInKeys /\ sourceKey \in getBuiltInKeys
    \/ testKey(sourceKey, opts.ignoreKeys)

\* a user key is skipped when this holds of its source key
ignored(sourceKey, opts) ==
    \/ opts.ignoreBuiltInKeys /\ sourceKey \in getBuiltInKeys
    \/ testKey(sourceKey, opts.ignoreKeys) /\ ~testKey(sourceKey, opts.acceptKeys)

RECURSIVE _parseQuery(_, _, _, _)

\* one turn of the loop: the entry key: value, met with the local variables st
entry(st, key, value, opts) ==
    IF key = <<"(", ")">>
    THEN IF st.params # Undefined THEN Error("Multiple parameters found at the same level")
         ELSE IF value.t = "array" THEN [st EXCEPT !.params = value]
         ELSE Error("Parameters must be specified in an array")
    ELSE IF key = <<"[", "]">>
    THEN IF st.useCollectionElements # Undefined
         THEN Error("Multiple item accessors found at the same level")
         ELSE IF IsNumber(value) THEN [st EXCEPT !.useCollectionElements = value]
         ELSE IF /\ value.t = "array"
                 /\ \/ Len(value.items) = 0
                    \/ Len(value.items) = 1 /\ IsNumber(value.items[1])
                    \/ Len(value.items) = 2 /\ IsNumber(value.items[1])
                                            /\ IsNumber(value.items[2])
         THEN [st EXCEPT !.useCollectionElements = value]
         ELSE Error("Item accessors must be a number, or an array of 0, 1, or 2 numbers")
    ELSE IF key = <<"<", "=">>
    THEN IF st.sourceValue # Undefined
         THEN Error("Multiple source values found at the same level")
         ELSE [st EXCEPT !.sourceValue = value]
    ELSE LET k == parseKey(key)
         IN  IF k.kind = "error" THEN k
             ELSE IF ignored(k.sourceKey, opts) THEN st
             ELSE LET subexpression == _parseQuery(value, k.sourceKey, k.isOptional, opts)
                  IN  IF subexpression.kind = "error" THEN subexpression
                      ELSE IF k.targetKey # <<>>
                      THEN [st EXCEPT !.nestedExpressions =
                                Set(IF @ = Undefined THEN Obj(<<>>) ELSE @,
                                    k.targetKey, subexpression)]
                      ELSE IF st.nextExpression # Undefined
                      THEN Error("Multiple empty targets found at the same level")
                      ELSE [st EXCEPT !.nextExpression = subexpression]

RECURSIVE entries(_, _, _, _)
\* the loop from its i-th turn on; a thrown error leaves it
entries(st, query, i, opts) ==
    IF st.kind = "error" \/ i > Len(query.f) THEN st
    ELSE entries(entry(st, query.f[i].k, query.f[i].v, opts), query, i + 1, opts)

\* query.map(_parseQuery): the first error thrown, or the expressions
parseAll(queries, sourceKey, isOptional, opts) ==
    LET expressions == [i \in 1..Len(queries) |->
                           _parseQuery(queries[i], sourceKey, isOptional, opts)]
        thrown == {i \in 1..Len(queries) : expressions[i].kind = "error"}
    IN  IF thrown # {}
        THEN expressions[CHOOSE i \in thrown : \A j \in thrown : i <= j]
        ELSE Sequential(expressions)

\* the node built without looking at which targets were met
expressionOf_Unchecked(sourceKey, isOptional, st) ==
    IF st.kind = "error" THEN st
    ELSE [kind |-> "node", sourceKey |-> sourceKey, isOptional |-> isOptional,
          params |-> st.params, useCollectionElements |-> st.useCollectionElements,
          sourceValue |-> st.sourceValue, nestedExpressions |-> st.nestedExpressions,
          nextExpression |-> st.nextExpression]

\* the node _parseQuery returns after its loop
expressionOf(sourceKey, isOptional, st) ==
    IF st.kind = "error" THEN st
    ELSE IF st.nextExpression # Undefined /\ st.nestedExpressions # Undefined
    THEN Error("Empty and non-empty targets found at the same level")
    ELSE [kind |-> "node", sourceKey |-> sourceKey, isOptional |-> isOptional,
          params |-> st.params, useCollectionElements |-> st.useCollectionElements,
          sourceValue |-> st.sourceValue, nestedExpressions |-> st.nestedExpressions,
          nextExpression |-> st.nextExpression]

_parseQuery(query, sourceKey, isOptional, opts) ==
    IF query.t = "array" THEN parseAll(query.items, sourceKey, isOptional, opts)
    ELSE LET parallelQueries == Get(query, <<"|", "|">>)
         IN  IF parallelQueries # Undefined
             THEN IF Len(query.f) # 1
                  THEN Error("A parallel query key must be the unique entry of an object")
                  ELSE IF parallelQueries.t # "array"
                  THEN Error("A parallel query key ('||') must be associated with an array")
                  ELSE LET expressions ==
                               parseAll(parallelQueries.items, sourceKey, isOptional, opts)
                       IN  IF expressions.kind = "error" THEN expressions
                           ELSE Parallel(expressions.els)
             ELSE IF query = True THEN expressionOf(sourceKey, isOptional, Locals)
             ELSE IF query.t # "object" THEN Error("Invalid query found")
             ELSE expressionOf(sourceKey, isOptional, entries(Locals, query, 1, opts))

\* an option left out takes its default
Default(value, default) == IF value = Undefined THEN default ELSE value
\* Array.isArray(patterns) ? patterns : [patterns]
Patterns(patterns) == IF patterns.t = "array" THEN patterns.items ELSE <<patterns>>

parseQuery(query, parseOptions) ==
    IF query = Undefined THEN Error("The 'query' parameter is missing")
    ELSE _parseQuery(query, <<>>, FALSE,
             [ignoreKeys |-> Patterns(Default(parseOptions.ignoreKeys, Arr(<<>>))),
              acceptKeys |-> Patterns(Default(parseOptions.acceptKeys, Arr(<<>>))),
              ignoreBuiltInKeys |-> Default(parseOptions.ignoreBuiltInKeys, True).b])

\* ------------------------------------------------------------------ the expressions Init draws

RECURSIVE Lists(_, _)
\* the non-empty lists of at most n members of S
Lists(S, n) ==
    IF n = 0 THEN {}
    ELSE {<<x>> : x \in S} \cup {Append(l, x) : l \in Lists(S, n - 1), x \in S}

Title == <<Entry("title", Attr("title"))>>
TitleAndRating == <<Entry("title", Attr("title")), Entry("rating", Attr("rating"))>>
FullName == <<Entry("fullName", Attr("fullName"))>>
Elements(e, uce) == [e EXCEPT !.useCollectionElements = uce]

\* one query each: what a key of a query object, or an element of an array, can ask
Units ==
    { Attr("username"), Attr("password"), Call("syncMethod"), Call("count"), Call("increment") }

\* more of them, tried alone and beside one sibling
Deep ==
    { Call("publicMethod"), Call("privateMethod"), Call("asyncMethod"),
      With(Attr("movie"), Title),
      With(Attr("director"), FullName), Optional(With(Attr("director"), FullName)),
      Call("actors"), Optional(Call("actors")),
      With(Call("actors"), Title), Optional(With(Call("actors"), Title)),
      Optional(Call("syncMethod")), Optional(Call("asyncMethod")),
      Elements(With(Attr("movies"), TitleAndRating), Range(<<>>)),
      Elements(With(Attr("movies"), Title), Range(<<-1>>)),
      Elements(With(Attr("items"), Title), Range(<<>>)),
      Elements(With(Attr("lazyMovies"), Title), Range(<<0, 2>>)),
      Elements(With(Attr("movies"), Title), Index(-1)),
      Elements(With(Attr("movies"), Title), Index(2)),
      Optional(Elements(With(Attr("movies"), Title), Index(2))),
      [Call("count") EXCEPT !.next = Call("syncMethod")],
      [Attr("movie") EXCEPT !.next = With(Attr(""), Title)],
      Sequential(<<Call("count"), Call("syncMethod"), Attr("username")>>) }

\* the sourceValue of describe('Source values'), and e with a sourceValue
Avatar == Obj(<<Entry("title", Str("Avatar"))>>)
From(e, sourceValue) == [e EXCEPT !.sourceValue = sourceValue]

\* nodes with a key and a sourceValue: attributes and methods that resolve at once or
\* later, are refused, throw or are missing; children, a next expression, a selector
Sourced ==
    { From(With(Attr("username"), Title), Avatar),
      From(With(Attr("password"), Title), Avatar),
      From(With(Attr("movie"), Title), Avatar),
      From(With(Attr("director"), Title), Avatar),
      From(With(Call("count"), Title), Avatar),
      From(With(Call("privateMethod"), Title), Avatar),
      From(With(Call("syncMethod"), Title), Avatar),
      From(With(Call("asyncMethod"), Title), Avatar),
      From(With(Call("actors"), Title), Avatar),
      From([Attr("username") EXCEPT !.next = With(Attr(""), Title)], Avatar),
      From(Elements(With(Call("count"), Title), Index(-1)), Arr(<<Inception, Avatar>>)),
      From(Elements(With(Attr("movies"), Title), Range(<<1>>)), Arr(<<Inception, Avatar>>)) }

\* nodes that select one element: in the collection, brought into it by rebasing,
\* outside it (still negative after rebasing), a hole of the collection, a promise
Indexed ==
    { Elements(With(Attr("movies"), Title), Index(0)),
      Elements(With(Attr("movies"), TitleAndRating), Index(-2)),
      Elements(With(Attr("movies"), Title), Index(-3)),
      Optional(Elements(With(Attr("movies"), Title), Index(-3))),
      Elements(With(Attr("items"), Title), Index(1)),
      Optional(Elements(With(Attr("items"), Title), Index(1))),
      Elements(With(Attr("lazyMovies"), Title), Index(-1)),
      Elements([Attr("movies") EXCEPT !.next = With(Attr(""), Title)], Index(1)) }

\* nodes that select a range: with one bound and with two, an end inside the
\* collection, beyond it and before the start, elements that are promises, children
\* that resolve later, a next expression
Ranged ==
    { Elements(With(Attr("movies"), TitleAndRating), Range(<<0, 1>>)),
      Elements(With(Attr("movies"), Title), Range(<<1, 5>>)),
      Elements(With(Attr("movies"), Title), Range(<<1, -1>>)),
      Elements(With(Attr("items"), Title), Range(<<2>>)),
      Elements(With(Attr("items"), Title), Range(<<-3, -2>>)),
      Elements(With(Attr("lazyMovies"), TitleAndRating), Range(<<>>)),
      Elements([Attr("movies") EXCEPT !.next = With(Attr(""), TitleAndRating)], Range(<<>>)) }

\* a failing node as the whole expression, as a next expression and as an element of
\* a parallel array, the last two under the first of two keys or elements
Failing == { Call("syncMethod"), Call("asyncMethod"), Attr("password") }
Rooted == Failing \cup { With(Attr("director"), FullName), Call("count") }
Handled ==
    UNION { { [Call("count") EXCEPT !.next = f], [Attr("username") EXCEPT !.next = f],
              Parallel(<<f, Attr("username")>>), Parallel(<<Call("count"), f>>) } :
            f \in Failing }

TargetKeys == <<"a", "b", "c", "d">>
\* {a: u1, b: u2, ...} under one node
Nested(us) ==
    Node("", FALSE, FALSE, NoElements,
         [i \in 1..Len(us) |-> Entry(TargetKeys[i], us[i])], NoExpr)
Under(u) == Nested(<<u>>)

\* a failing member between two others
Between ==
    { <<before, failing, Attr("username")>> :
          before \in {Attr("username"), Call("count")},
          failing \in {Call("syncMethod"), Call("asyncMethod"), Attr("password")} }

Expressions ==
    UNION { { Nested(us), Sequential(us), Parallel(us) } : us \in Lists(Units, MaxLen) \cup Between }
    \cup
    UNION { { Sequential(<<Under(u), Under(v)>>), Parallel(<<Under(u), Under(v)>>) } :
            u \in Units, v \in Units }
    \cup
    UNION { { Nested(<<d>>), Nested(<<d, Attr("username")>>), Nested(<<Call("count"), d>>),
              Sequential(<<Under(d), Under(Attr("username"))>>),
              Parallel(<<Under(d), Under(Call("count"))>>),
              Sequential(<<d, Attr("username")>>), Parallel(<<d, Attr("username")>>) } : d \in Deep }
    \cup
    UNION { { Nested(<<f>>), Nested(<<f, Attr("username")>>) } : f \in Sourced \cup Indexed \cup Ranged }
    \cup
    Rooted
    \cup
    UNION { { Nested(<<f, Attr("username")>>), Sequential(<<f, Call("count")>>) } : f \in Handled }

\* ------------------------------------------------------------------ the state machine

Init ==
    /\ rootTarget \in {root, Sync(root)}
    /\ expression \in Expressions
    /\ options \in [authorizer : {"none", "sync", "async"}, errorHandler : BOOLEAN]
    /\ ret = "none"
    /\ task = NoTask
    /\ orphans = <<>>
    /\ counter = 0
    /\ log = <<>>
    /\ givenQuery = Undefined
    /\ givenOptions = Undefined
    /\ parsed = NoExpr

\* invokeExpression(rootTarget, expression, options): everything up to the first pending promise
Invoke ==
    /\ ret = "none"
    /\ \E r \in {invokeExpression(rootTarget, expression, options, Host(counter, log))} :
           /\ task' = r.ctl.o
           /\ ret' = IF r.ctl.o.k = "val" THEN "value"
                     ELSE IF r.ctl.o.k = "err" THEN "throw" ELSE "promise"
           /\ orphans' = r.h.orph
           /\ counter' = r.h.counter
           /\ log' = r.h.log
    /\ UNCHANGED <<rootTarget, expression, options, givenQuery, givenOptions, parsed>>

\* the pending promise at path of the evaluation (j = 0) or of orphan j settles
Settle(j, path) ==
    \E r \in {settle(IF j = 0 THEN task ELSE orphans[j], path, options, Host(counter, log))} :
        /\ task' = IF j = 0 THEN r.ctl.o ELSE task
        /\ orphans' = (IF j = 0 THEN orphans ELSE [orphans EXCEPT ![j] = r.ctl.o]) \o r.h.orph
        /\ counter' = r.h.counter
        /\ log' = r.h.log
        /\ UNCHANGED <<rootTarget, expression, options, ret, givenQuery, givenOptions, parsed>>

PendingOf(j, kind) ==
    LET t == IF j = 0 THEN task ELSE orphans[j]
    IN  {path \in Pending(t) : PendingKind(t, path) = kind}

\* the authorizer's promise gives its answer
AuthorizerAnswers ==
    /\ ret # "none"
    /\ \E j \in 0..Len(orphans) : \E path \in PendingOf(j, "wauth") : Settle(j, path)

\* an attribute's promise or a method's promise settles
TargetSettles ==
    /\ ret # "none"
    /\ \E j \in 0..Len(orphans) : \E path \in PendingOf(j, "wval") : Settle(j, path)

\* a promise among the elements of a collection settles
ElementSettles ==
    /\ ret # "none"
    /\ \E j \in 0..Len(orphans) : \E path \in PendingOf(j, "witem") : Settle(j, path)

Next == Invoke \/ AuthorizerAnswers \/ TargetSettles \/ ElementSettles

Spec == Init /\ [][Next]_vars

\* ------------------------------------------------------------------ the queries ParserInit draws

\* most entries of a query object drawn by ParserInit
MaxKeys == 2

\* user keys with their queries
UserEntries ==
    { Entry(<<"username">>, True),
      Entry(<<"password">>, True),
      Entry(<<"_", "id">>, True),
      Entry(<<"_", "password">>, True),
      Entry(<<"hasOwnProperty">>, Obj(<<Entry(<<"(", ")">>, Arr(<<Str(<<"username">>)>>))>>)),
      Entry(<<"_", "id", "?", "=", ">", "id">>, True),
      Entry(<<"username", "=", ">", "_", "id">>, True),
      Entry(<<"toString", "=", ">", "text">>, True),
      Entry(<<"movie", "=", ">">>, Obj(<<Entry(<<"title">>, True)>>)),
      Entry(<<"=", ">">>, True),
      Entry(<<"a", "=", ">", "b", "=", ">", "c">>, True),
      Entry(<<"username", "=", ">", "_", "_", "proto", "_", "_">>, True),
      Entry(<<"count">>, Num(1)) }

\* reserved keys with well-formed and ill-formed values
ReservedEntries ==
    { Entry(<<"(", ")">>, Arr(<<>>)),
      Entry(<<"(", ")">>, True),
      Entry(<<"[", "]">>, Num(0)),
      Entry(<<"[", "]">>, Arr(<<Num(0), Num(2)>>)),
      Entry(<<"[", "]">>, Arr(<<Num(0), True>>)),
      Entry(<<"[", "]">>, Arr(<<Num(0), Num(1), Num(2)>>)),
      Entry(<<"<", "=">>, Obj(<<Entry(<<"title">>, Str(<<"Avatar">>))>>)),
      Entry(<<"|", "|">>, Arr(<<True>>)),
      Entry(<<"|", "|">>, True) }

\* the keys of an object are distinct
Objects(n) ==
    { Obj(f) : f \in { l \in Lists(UserEntries \cup ReservedEntries, n) :
                          \A i, j \in 1..Len(l) : l[i].k = l[j].k => i = j } }

\* a query as an element of an array, of a parallel array, and under a user key
Around(q) ==
    { Arr(<<True, q>>),
      Obj(<<Entry(<<"|", "|">>, Arr(<<q, True>>))>>),
      Obj(<<Entry(<<"user">>, q)>>),
      Obj(<<Entry(<<"_", "user">>, q), Entry(<<"username">>, True)>>) }

Queries ==
    {Undefined, True, Num(1), Obj(<<>>), Arr(<<>>)}
    \cup Objects(MaxKeys)
    \cup UNION { Around(q) : q \in Objects(MaxKeys - 1) }

ParseQueryOptions ==
    [ignoreKeys : {Undefined, RegExp(<<"_">>),
                   Arr(<<Str(<<"password">>), RegExp(<<"_">>), Str(<<"hasOwnProperty">>)>>)},
     acceptKeys : {Undefined, Str(<<"_", "id">>),
                   Arr(<<Str(<<"hasOwnProperty">>), Str(<<"_", "id">>)>>)},
     ignoreBuiltInKeys : {Undefined, Bool(FALSE)}]

\* ------------------------------------------------------------------ the parser alone

ParserInit ==
    /\ givenQuery \in Queries
    /\ givenOptions \in ParseQueryOptions
    /\ parsed = NoExpr
    /\ rootTarget = Undefined
    /\ expression = NoExpr
    /\ options = [authorizer |-> "none", errorHandler |-> FALSE]
    /\ ret = "none"
    /\ task = NoTask
    /\ orphans = <<>>
    /\ counter = 0
    /\ log = <<>>

\* parseQuery(givenQuery, givenOptions)
ParseQuery ==
    /\ parsed = NoExpr
    /\ parsed' = parseQuery(givenQuery, givenOptions)
    /\ UNCHANGED <<givenQuery, givenOptions, rootTarget, expression, options, ret, task,
                    orphans, counter, log>>

ParserNext == ParseQuery

ParserSpec == ParserInit /\ [][ParserNext]_vars

\* ------------------------------------------------------------------ reading the history

Events == 1..Len(log)
Is(i, ev) == log[i].ev = ev
\* event i is ev, raised by the node evaluation pid
IsAt(i, ev, pid) == log[i].ev = ev /\ log[i].pid = pid
Happened(ev, pid) == \E i \in Events : IsAt(i, ev, pid)
Settled == ret # "none" /\ IsFinal(task)

NotAllowedGet == "Cannot get the value of an attribute that is not allowed"
NotAllowedCall == "Cannot execute a method that is not allowed"
QueryOnUndefined == "Cannot execute a query on undefined"
MethodNotFound == "Couldn't find a method matching the key"

RECURSIVE Occurs(_, _)
\* x is v or a part of v
Occurs(x, v) ==
    \/ x = v
    \/ v.t = "object" /\ \E i \in 1..Len(v.f) : Occurs(x, v.f[i].v)
    \/ v.t = "array" /\ \E i \in 1..Len(v.items) : Occurs(x, v.items[i])

\* ------------------------------------------------------------------ C1

\* C1: with an authorizer configured, every attribute read asks the authorizer
\* (key, "get") and every call of an existing method asks it (key, "call"); a method
\* is invoked and an attribute's value is yielded only after the authorizer allowed
\* that key and operation for that node; a refusal raises an error at that node, which
\* then neither yields nor invokes, and no refused value reaches the result.
C1_AuthorizerGuardsEveryAccess ==
    options.authorizer # "none" =>
        /\ \A i \in Events :
              /\ Is(i, "evaluateAttribute") \/ (Is(i, "evaluateMethod") /\ log[i].op = "call")
                 => /\ i < Len(log)
                    /\ log[i + 1] = [ev |-> "authorize", pid |-> log[i].pid,
                                     key |-> log[i].key, op |-> log[i].op]
              /\ Is(i, "call") \/ Is(i, "get")
                 => \E j \in 1..(i - 1) :
                       log[j] = [ev |-> "allowed", pid |-> log[i].pid,
                                 key |-> log[i].key, op |-> log[i].op]
              /\ Is(i, "refused")
                 => /\ i < Len(log)
                    /\ IsAt(i + 1, "error", log[i].pid)
                    /\ log[i + 1].key = (IF log[i].op = "get" THEN NotAllowedGet
                                         ELSE NotAllowedCall)
                    /\ \A j \in Events :
                          ~(log[j].pid = log[i].pid /\ log[j].ev \in {"call", "get"})
        /\ task.k = "val"
           => /\ ~Occurs(Str("secret"), task.v)
              /\ ~Occurs(Str("private information"), task.v)

\* an asynchronous authorizer has refused one access and allowed a call, which was made
C1_Witness ==
    /\ options.authorizer = "async"
    /\ \E i, j \in Events : Is(i, "refused") /\ Is(j, "call")
    /\ Settled

\* ------------------------------------------------------------------ C2

\* C2 as stated: the errorHandler is never called with a refusal of the authorizer,
\* and a refused evaluation ends with that error
C2_DenialBypassesErrorHandler ==
    options.errorHandler =>
        /\ \A i \in Events :
              Is(i, "errorHandler") => log[i].key \notin {NotAllowedGet, NotAllowedCall}
        /\ (Settled /\ \E i \in Events : Is(i, "refused")) => task.k = "err"

\* C2 (amended): with an errorHandler configured, a refusal of the authorizer goes to
\* the errorHandler like any other error: the handler is called with the denial raised
\* at that node, the evaluation does not fail, and the handler's return value is in the
\* result.
C2_DenialGoesToErrorHandler ==
    options.errorHandler =>
        /\ \A i \in Events :
              Is(i, "refused")
              => /\ i + 2 <= Len(log)
                 /\ IsAt(i + 1, "error", log[i].pid)
                 /\ IsAt(i + 2, "errorHandler", log[i].pid)
                 /\ log[i + 2].key = (IF log[i].op = "get" THEN NotAllowedGet
                                      ELSE NotAllowedCall)
                 /\ Settled => Occurs(HandlerResult(log[i + 2].key), task.v)
        /\ Settled => task.k = "val"

\* a read refused by an asynchronous authorizer has been answered by the errorHandler,
\* and the evaluation has ended with a result
C2_Witness ==
    /\ options.errorHandler
    /\ options.authorizer = "async"
    /\ \E i \in Events : Is(i, "errorHandler") /\ log[i].key = NotAllowedGet
    /\ Settled
    /\ task.k = "val"

\* ------------------------------------------------------------------ C3, C4

\* the members of the map the whole query is: the keys of a query object, the elements
\* of a plain array
Members ==
    IF expression.kind = "node" THEN [i \in 1..Len(expression.nested) |-> expression.nested[i].v]
    ELSE expression.els
MemberKey(i) == IF expression.kind = "node" THEN expression.nested[i].k ELSE ""
\* the value member i yields when it is evaluated alone, with the same options
Alone(i) ==
    IF expression.kind = "node" THEN Get(Result(rootTarget, Under(Members[i]), options).v, "a")
    ELSE Result(rootTarget, Members[i], options).v
\* the evaluation of member n of the map of node p raised an error
MemberFailed(p, n) == Happened("error", p \o <<n>>)
FailureOf(p, n) == log[CHOOSE j \in Events : IsAt(j, "error", p \o <<n>>)].key
\* member i is a call of a host method that threw
Threw(i) ==
    /\ Members[i].kind = "node" /\ Members[i].params
    /\ \E j \in Events : IsAt(j, "error", <<i>>) /\ log[j].key \in {"sync error", "async error"}

\* C3 as stated: under an errorHandler, a throwing method among the keys of a query
\* object leaves the handler's value under its key, the keys before it keep their
\* values, and the keys after it are still evaluated
C3_LaterSiblingsStillRun ==
    (options.errorHandler /\ expression.kind = "node" /\ Settled) =>
        \A i \in 1..Len(Members) :
            Threw(i)
            => /\ task.k = "val"
               /\ Get(task.v, MemberKey(i)) = HandlerResult(FailureOf(<<>>, i))
               /\ \A j \in 1..(i - 1) : Get(task.v, MemberKey(j)) = Alone(j)
               /\ \A j \in (i + 1)..Len(Members) : Happened("start", <<j>>)

\* C3 (amended): under an errorHandler, a throwing method among the keys of a query
\* object leaves the handler's value under its key, the keys before it keep the values
\* they yield alone, and the keys after it are never evaluated and are absent from the
\* result.
C3_LaterSiblingsAreSkipped ==
    (options.errorHandler /\ expression.kind = "node") =>
        \A i \in 1..Len(Members) :
            Threw(i)
            => /\ \A j \in (i + 1)..Len(Members) : ~Happened("start", <<j>>)
               /\ Settled
                  => task = Val(Obj([j \in 1..i |->
                                Entry(MemberKey(j), IF j = i THEN HandlerResult(FailureOf(<<>>, i))
                                                    ELSE Alone(j))]))

\* an asynchronous method has thrown between two other keys and the evaluation is over
C3_Witness ==
    /\ options.errorHandler
    /\ expression.kind = "node"
    /\ Len(Members) = 3
    /\ Threw(2)
    /\ FailureOf(<<>>, 2) = "async error"
    /\ Settled

\* the children of the root that map a range of a collection
RangeChildren ==
    IF expression.kind # "node" THEN {}
    ELSE {c \in 1..Len(Members) :
            Members[c].kind = "node" /\ Members[c].useCollectionElements.k = "range"}
RangeItems(c) ==
    Slice((IF Members[c].sourceValue # Undefined THEN Members[c].sourceValue
           ELSE Get(rootTarget, Members[c].sourceKey)).items,
          Members[c].useCollectionElements.r)

\* C4: under an errorHandler, when a member of a sequential map fails (a key of a query
\* object, an element of a plain array, an element of a mapped range), the members after
\* it are never evaluated and the map's result is the values of the members before it
\* followed by the handler's value in the failing member's place.
C4_FailingMemberEndsTheMap ==
    options.errorHandler =>
        /\ expression.kind \in {"node", "seq"}
           => \A n \in 1..Len(Members) :
                 MemberFailed(<<>>, n)
                 => /\ \A j \in (n + 1)..Len(Members) : ~Happened("start", <<j>>)
                    /\ Settled
                       => LET value(j) == IF j = n THEN HandlerResult(FailureOf(<<>>, n))
                                          ELSE Alone(j)
                          IN  task = Val(IF expression.kind = "node"
                                         THEN Obj([j \in 1..n |-> Entry(MemberKey(j), value(j))])
                                         ELSE Arr([j \in 1..n |-> value(j)]))
        /\ \A c \in RangeChildren : \A n \in 1..Len(RangeItems(c)) :
              MemberFailed(<<c>>, n)
              => /\ \A j \in (n + 1)..Len(RangeItems(c)) : ~Happened("start", <<c, j>>)
                 /\ Settled
                    => /\ task.k = "val"
                       /\ task.v.f[c].v =
                              Arr([j \in 1..n |->
                                     IF j = n THEN HandlerResult(FailureOf(<<c>>, n))
                                     ELSE Result(RangeItems(c)[j],
                                                 With(Attr(""), Members[c].nested), options).v])

\* the second element of a mapped range has failed after the first one gave a value
C4_Witness ==
    /\ options.errorHandler
    /\ \E c \in RangeChildren : MemberFailed(<<c>>, 2) /\ Len(RangeItems(c)) = 3
    /\ Settled

\* the second element of a plain array has failed asynchronously
C4_WitnessArray ==
    /\ options.errorHandler
    /\ expression.kind = "seq"
    /\ Len(Members) = 3
    /\ MemberFailed(<<>>, 2)
    /\ FailureOf(<<>>, 2) = "async error"
    /\ Settled
\* ------------------------------------------------------------------ C5, C6

\* event i is the start of an element of the array the whole query is
StartsElement(i) == Is(i, "start") /\ Len(log[i].pid) = 1
\* the node evaluated before pid by the same map
Previous(pid) == [pid EXCEPT ![Len(pid)] = @ - 1]
NoMemberFailed == \A n \in 1..Len(Members) : ~MemberFailed(<<>>, n)

\* C5: the elements of a plain array are evaluated in expression order against the
\* same target, element k+1 is started only after the result of element k, synchronous
\* or asynchronous, is there, and when no element fails the result is the sequence of
\* the elements' results in expression order.
C5_PlainArrayIsSequential ==
    /\ \A i \in Events :
          /\ Is(i, "start")
          /\ log[i].key = "seq" \/ (expression.kind = "seq" /\ Len(log[i].pid) = 1)
          /\ log[i].pid[Len(log[i].pid)] > 1
          => \E j \in 1..(i - 1) : IsAt(j, "end", Previous(log[i].pid))
    /\ (expression.kind = "seq" /\ Settled /\ task.k = "val" /\ NoMemberFailed)
       => task = Val(Arr([j \in 1..Len(Members) |-> Alone(j)]))

\* the second element of a plain array was started after the first one's promise
\* resolved, and the array has its result
C5_Witness ==
    /\ expression.kind = "seq"
    /\ \E i, j \in Events :
          /\ i < j
          /\ IsAt(i, "end", <<1>>) /\ log[i].op = "async"
          /\ IsAt(j, "start", <<2>>)
    /\ Settled
    /\ task.k = "val"

\* C6: every element of a parallel array is started before the asynchronous result of
\* any of them is awaited, and the result has element i's result at position i whatever
\* the order in which the elements complete.
C6_ParallelStartsAllThenAwaits ==
    expression.kind = "par" =>
        /\ \A i, j \in Events :
              (Is(i, "end") /\ Len(log[i].pid) = 1 /\ log[i].op = "async" /\ StartsElement(j))
              => j < i
        /\ ret \in {"value", "promise"}
           => \A n \in 1..Len(Members) : Happened("start", <<n>>)
        /\ (Settled /\ task.k = "val")
           => task = Val(Arr([j \in 1..Len(Members) |-> Alone(j)]))

\* the second element of a parallel array completed before the first, and the array has
\* its result
C6_Witness ==
    /\ expression.kind = "par"
    /\ \E i, j \in Events :
          /\ i < j
          /\ IsAt(i, "end", <<2>>) /\ log[i].op = "async"
          /\ IsAt(j, "end", <<1>>) /\ log[j].op = "async"
    /\ Settled
    /\ task.k = "val"
    /\ task.v.items[1] # task.v.items[2]

\* ------------------------------------------------------------------ C7

\* test('Call a method two times concurrently'): the same call twice
Twice == { <<Call("increment"), Call("increment")>>,
           <<Under(Call("increment")), Under(Call("increment"))>> }

\* increment suspends between its read and its write
Suspends == Get(rootTarget, "increment").async
\* the method was called twice, and both calls have written the counter back
CalledTwice ==
    /\ Settled
    /\ Cardinality({i \in Events : Is(i, "call") /\ log[i].key = "increment"}) = 2

C7_WitnessSequential ==
    /\ Suspends
    /\ expression \in {Sequential(els) : els \in Twice}
    /\ options.authorizer = "none"
    /\ CalledTwice
    /\ counter = 2

\* with an authorizer that answers asynchronously the second call can be made after
\* the first has written: this is violated
C7_WhateverTheAuthorizer ==
    (Suspends /\ CalledTwice) => (expression \in {Parallel(els) : els \in Twice} => counter = 1)
\* ------------------------------------------------------------------ C8

\* what the plain array of the same elements returns, with the same options
Twin == Result(rootTarget, Sequential(expression.els), options)
FirstFailed == CHOOSE n \in 1..Len(Members) :
                   MemberFailed(<<>>, n) /\ \A j \in 1..(n - 1) : ~MemberFailed(<<>>, j)

\* C8 as stated: a parallel array and the plain array of the same elements, with the
\* same options, both fail or return equal results
C8_ParallelEqualsSequential ==
    (expression.kind = "par" /\ Settled) =>
        /\ task.k = Twin.k
        /\ task.k = "val" => task = Twin

\* C8 (amended): a parallel array and the plain array of the same elements, with the
\* same options, both fail or both return; they return equal results when no element's
\* own evaluation raises an error; when one does, under an errorHandler, the plain
\* array's result is the parallel array's result cut after the first such element.
C8_SequentialIsParallelUpToFirstFailure ==
    (expression.kind = "par" /\ Settled) =>
        /\ task.k = Twin.k
        /\ task.k = "val"
           => IF NoMemberFailed THEN task = Twin
              ELSE /\ Len(task.v.items) = Len(Members)
                   /\ Twin = Val(Arr(SubSeq(task.v.items, 1, FirstFailed)))

\* a parallel array whose second element of three failed has its three results; the
\* plain array returns two
C8_Witness ==
    /\ expression.kind = "par"
    /\ options.errorHandler
    /\ Len(Members) = 3
    /\ Settled
    /\ task.k = "val"
    /\ ~NoMemberFailed
    /\ FirstFailed = 2
    /\ Len(Twin.v.items) = 2

\* a parallel array of asynchronous elements, none failing, has its results
C8_WitnessEqual ==
    /\ expression.kind = "par"
    /\ Settled
    /\ task.k = "val"
    /\ NoMemberFailed
    /\ \E i \in Events : Is(i, "end") /\ Len(log[i].pid) = 1 /\ log[i].op = "async"
\* ------------------------------------------------------------------ C9

\* the keys of the query object whose evaluation is over
Evaluated ==
    IF expression.kind # "node" THEN {}
    ELSE {i \in 1..Len(Members) : Members[i].kind = "node" /\ Happened("end", <<i>>)}
\* u asks for the children of an attribute that is undefined
UndefinedTarget(u) ==
    /\ ~u.params
    /\ Get(rootTarget, u.sourceKey) = Undefined
    /\ u.sourceValue = Undefined
    /\ u.nested # <<>> \/ u.next # NoExpr
MissingMethod(u) == u.params /\ Get(rootTarget, u.sourceKey) = Undefined
\* u calls a method of the host that throws
ThrowingMethod(u) ==
    /\ u.params
    /\ Get(rootTarget, u.sourceKey).t = "function"
    /\ Get(rootTarget, u.sourceKey).how = "throw"
\* the evaluation of key i, or of a node under it, raised an error
RaisedUnder(i) ==
    \E j \in Events : Is(j, "error") /\ log[j].pid # <<>> /\ log[j].pid[1] = i
\* the evaluation of key i failed with error: the error was raised at its node and,
\* with no errorHandler to replace it, invokeExpression fails with it
FailedWith(i, error) ==
    /\ \E j \in Events : IsAt(j, "error", <<i>>) /\ log[j].key = error
    /\ ~options.errorHandler => task = Err(error)

\* C9: an optional key yields undefined, with no error, when children are asked of an
\* undefined target or when its method is missing, and the key after it is evaluated;
\* the same key without ? fails with the query-on-undefined, respectively the
\* method-not-found error; and an existing method that throws fails with its own error
\* whether its key is optional or not.
C9_OptionalSuppressesOnlyMisses ==
    \A i \in Evaluated :
        LET u == Members[i]
        IN  /\ (UndefinedTarget(u) \/ MissingMethod(u))
               => IF u.isOptional
                  THEN /\ ~RaisedUnder(i)
                       /\ i < Len(Members) => Happened("start", <<i + 1>>)
                       /\ (Settled /\ task.k = "val")
                          => task.v.f[i] = Entry(MemberKey(i), Undefined)
                  ELSE FailedWith(i, IF MissingMethod(u) THEN MethodNotFound
                                     ELSE QueryOnUndefined)
            /\ (ThrowingMethod(u) /\ Happened("call", <<i>>))
               => FailedWith(i, Get(rootTarget, u.sourceKey).v.s)

\* an optional key found its target undefined, the key after it was evaluated, and
\* the result is there
C9_Witness ==
    /\ \E i \in Evaluated :
          /\ Members[i].isOptional
          /\ UndefinedTarget(Members[i])
          /\ i < Len(Members)
          /\ Happened("end", <<i + 1>>)
    /\ Settled
    /\ task.k = "val"

\* an optional key found its method missing
C9_WitnessMissingMethod ==
    /\ \E i \in Evaluated : Members[i].isOptional /\ MissingMethod(Members[i])
    /\ Settled
    /\ task.k = "val"

\* an optional key called a method that threw, and the evaluation failed
C9_WitnessThrow ==
    /\ \E i \in Evaluated :
          Members[i].isOptional /\ ThrowingMethod(Members[i]) /\ Happened("call", <<i>>)
    /\ Settled
    /\ task.k = "err"

\* a key that is not optional found its target undefined, and the evaluation failed
C9_WitnessFailure ==
    /\ \E i \in Evaluated : ~Members[i].isOptional /\ UndefinedTarget(Members[i])
    /\ Settled
    /\ task = Err(QueryOnUndefined)
\* ------------------------------------------------------------------ C10

RECURSIVE AsyncKeys(_)
\* the keys of v and of its parts under which a promise is met: an attribute that is a
\* promise, a method that returns one, a collection that has one among its elements
AsyncKeys(v) ==
    IF v.t = "promise" THEN AsyncKeys(v.v)
    ELSE IF v.t = "object"
    THEN UNION { {v.f[i].k : x \in {v.f[i].v} \cap {y \in {v.f[i].v} :
                                 \/ y.t = "promise"
                                 \/ y.t = "function" /\ y.async
                                 \/ y.t = "array" /\ \E n \in 1..Len(y.items) :
                                                         y.items[n].t = "promise"}}
                 \cup AsyncKeys(v.f[i].v) : i \in 1..Len(v.f) }
    ELSE IF v.t = "array" THEN UNION {AsyncKeys(v.items[i]) : i \in 1..Len(v.items)}
    ELSE {}

\* the evaluation has met an asynchronous value: an answer of an asynchronous
\* authorizer, an attribute or a method's result or a collection element that is a promise
MetAsync ==
    \/ options.authorizer = "async" /\ \E i \in Events : Is(i, "authorize")
    \/ \E i \in Events : log[i].ev \in {"get", "call"} /\ log[i].key \in AsyncKeys(rootTarget)

SyncOptions == [options EXCEPT !.authorizer = IF @ = "async" THEN "sync" ELSE @]
\* what the evaluation gives with every value made synchronous
SyncResult == Result(Sync(rootTarget), expression, SyncOptions)

\* C10: invokeExpression returns a plain result only when the evaluation met no
\* asynchronous value and a promise only when it met one; and a result that comes
\* through a promise equals the result the same target gives with its values made
\* synchronous.
C10_AsyncOnlyWhenNeeded ==
    /\ ret = "value" => ~MetAsync
    /\ ret = "promise" => MetAsync
    /\ Settled
       => /\ task.k = SyncResult.k
          /\ task.k = "val" => task = SyncResult

\* a promise was returned, the asynchronous values it waited for have come, and the
\* result has more than one part
C10_Witness ==
    /\ ret = "promise"
    /\ Settled
    /\ task.k = "val"
    /\ Cardinality({i \in Events : log[i].ev \in {"get", "call"}
                                    /\ log[i].key \in AsyncKeys(rootTarget)}) >= 2

\* the same query on the target made synchronous returned its result at once
C10_WitnessSync ==
    /\ rootTarget = Sync(root)
    /\ ret = "value"
    /\ \E i \in Events : log[i].ev = "call" /\ log[i].key \in AsyncKeys(root)

\* ------------------------------------------------------------------ reading a parse

Parsed == parsed # NoExpr
Rejected(message) == parsed = Error(message)
Returned == Parsed /\ parsed.kind # "error"

\* the key read by its characters: where its first "=>" is, if it has one
FirstArrow(key) ==
    IF \E i \in 1..Len(key) : Arrow(key, i)
    THEN CHOOSE i \in 1..Len(key) : Arrow(key, i) /\ \A j \in 1..(i - 1) : ~Arrow(key, j)
    ELSE Len(key) + 1
\* what stands before the first "=>", without a trailing "?"
SourcePart(key) ==
    LET source == SubSeq(key, 1, FirstArrow(key) - 1)
    IN  IF endsWith(source, "?") THEN SubSeq(source, 1, Len(source) - 1) ELSE source
\* what stands after the first "=>"; the source part when there is no "=>"
TargetPart(key) ==
    IF FirstArrow(key) > Len(key) THEN SourcePart(key)
    ELSE SubSeq(key, FirstArrow(key) + 2, Len(key))

ReservedKeys == { <<"(", ")">>, <<"[", "]">>, <<"<", "=">> }
\* the entries of a query object under user keys
UserKeys(q) == { i \in 1..Len(q.f) : q.f[i].k \notin ReservedKeys }

RECURSIVE Subexpressions(_)
\* an expression and every expression below it
Subexpressions(e) ==
    {e} \cup
    IF e.kind \in {"seq", "par"}
    THEN UNION { Subexpressions(e.els[i]) : i \in 1..Len(e.els) }
    ELSE (IF e.nextExpression = Undefined THEN {} ELSE Subexpressions(e.nextExpression))
         \cup
         (IF e.nestedExpressions = Undefined THEN {}
          ELSE UNION { Subexpressions(e.nestedExpressions.f[i].v) :
                       i \in 1..Len(e.nestedExpressions.f) })

NodesOf(e) == { n \in Subexpressions(e) : n.kind = "node" }

IsSoleParallel(q) ==
    q.t = "object" /\ Len(q.f) = 1 /\ q.f[1].k = <<"|", "|">> /\ q.f[1].v.t = "array"

RECURSIVE CameFrom(_, _)
\* expression e can have come from query q: a parallel sequence from an object
\* whose sole key is "||", a plain sequence from an array, element by element,
\* and every child of a node from an entry of the object under a user key
CameFrom(e, q) ==
    IF e.kind = "par"
    THEN /\ IsSoleParallel(q)
         /\ Len(e.els) = Len(q.f[1].v.items)
         /\ \A i \in 1..Len(e.els) : CameFrom(e.els[i], q.f[1].v.items[i])
    ELSE IF e.kind = "seq"
    THEN /\ q.t = "array"
         /\ Len(e.els) = Len(q.items)
         /\ \A i \in 1..Len(e.els) : CameFrom(e.els[i], q.items[i])
    ELSE /\ ~IsSoleParallel(q)
         /\ q.t \in {"boolean", "object"}
         /\ e.nextExpression # Undefined =>
                \E i \in UserKeys(q) : /\ TargetPart(q.f[i].k) = <<>>
                                        /\ CameFrom(e.nextExpression, q.f[i].v)
         /\ e.nestedExpressions # Undefined =>
                \A j \in 1..Len(e.nestedExpressions.f) :
                    \E i \in UserKeys(q) :
                        /\ TargetPart(q.f[i].k) = e.nestedExpressions.f[j].k
                        /\ CameFrom(e.nestedExpressions.f[j].v, q.f[i].v)

IsNumbers(value) ==
    /\ value.t = "array"
    /\ Len(value.items) \in {0, 1, 2}
    /\ \A i \in 1..Len(value.items) : value.items[i].t = "number"

WellFormed(n) ==
    /\ ~(n.nextExpression # Undefined /\ n.nestedExpressions # Undefined)
    /\ n.useCollectionElements # Undefined =>
           n.useCollectionElements.t = "number" \/ IsNumbers(n.useCollectionElements)
    /\ n.params # Undefined => n.params.t = "array"

\* ------------------------------------------------------------------ C11

\* C11: whatever the query and the options, parseQuery either throws or returns an
\* expression in which every node has at most one of nextExpression and
\* nestedExpressions, a useCollectionElements (if any) that is a number or an array
\* of 0, 1 or 2 numbers and params (if any) that are an array, and in which a
\* sequence is tagged parallel only where the query has an object whose sole key
\* is "||".
C11_ParsedExpressionIsWellFormed ==
    Returned =>
        /\ \A n \in NodesOf(parsed) : WellFormed(n)
        /\ CameFrom(parsed, givenQuery)

\* a parallel sequence was returned, an element of which selects elements and has
\* a child
C11_Witness ==
    /\ Returned
    /\ parsed.kind = "par"
    /\ \E n \in NodesOf(parsed) :
           n.useCollectionElements # Undefined \/ n.nestedExpressions # Undefined
    /\ \E n \in NodesOf(parsed) : n.nextExpression # Undefined

\* parseQuery refused a query with an empty target beside a named one
C11_WitnessRejected ==
    Rejected("Empty and non-empty targets found at the same level")

\* ------------------------------------------------------------------ C12

Matches(key, pattern) ==
    IF pattern.t = "string" THEN pattern.s = key ELSE startsWith(key, pattern.prefix)
\* key matches the pattern, or one of the patterns, given as an option
MatchesOneOf(key, option) ==
    /\ option # Undefined
    /\ IF option.t = "array"
       THEN \E i \in 1..Len(option.items) : Matches(key, option.items[i])
       ELSE Matches(key, option)

\* source[?], source[?]=>target or source[?]=>
IsUserKey(key) ==
    /\ key \notin ReservedKeys
    /\ \A i, j \in 1..Len(key) : Arrow(key, i) /\ Arrow(key, j) => i = j

\* the patterns tell to leave this key out
LeftOut(key, opts) ==
    /\ IsUserKey(key)
    /\ MatchesOneOf(SourcePart(key), opts.ignoreKeys)
    /\ ~MatchesOneOf(SourcePart(key), opts.acceptKeys)

RECURSIVE Without(_, _)
\* query q without the user keys the patterns tell to leave out, at every depth
Without(q, opts) ==
    IF q.t = "array"
    THEN Arr([i \in 1..Len(q.items) |-> Without(q.items[i], opts)])
    ELSE IF IsSoleParallel(q)
    THEN Obj(<<Entry(q.f[1].k,
                     Arr([i \in 1..Len(q.f[1].v.items) |->
                             Without(q.f[1].v.items[i], opts)]))>>)
    ELSE IF q.t = "object"
    THEN LET Kept(e) == ~LeftOut(e.k, opts)
             kept == SelectSeq(q.f, Kept)
         IN  Obj([i \in 1..Len(kept) |->
                     IF IsUserKey(kept[i].k)
                     THEN Entry(kept[i].k, Without(kept[i].v, opts))
                     ELSE kept[i]])
    ELSE q

NoPatterns(opts) == [opts EXCEPT !.ignoreKeys = Undefined, !.acceptKeys = Undefined]

\* an entry of the query, or of a query under one of its user keys, has this key
RECURSIVE HasKey(_, _)
HasKey(q, key) ==
    IF q.t = "array" THEN \E i \in 1..Len(q.items) : HasKey(q.items[i], key)
    ELSE IF IsSoleParallel(q)
    THEN \E i \in 1..Len(q.f[1].v.items) : HasKey(q.f[1].v.items[i], key)
    ELSE /\ q.t = "object"
         /\ \E i \in UserKeys(q) : q.f[i].k = key \/ HasKey(q.f[i].v, key)

\* C12: parseQuery answers as it answers, without ignoreKeys and acceptKeys, the
\* query from which every user key is removed with its sub-query whose source
\* part (what precedes "=>", without a trailing "?") matches a pattern of
\* ignoreKeys and no pattern of acceptKeys: such a key is dropped, a key matching
\* both is kept, and the target part is not looked at. (A dropped key still
\* counts as an entry beside "||".)
C12_IgnoredUnlessAccepted ==
    Parsed =>
        \/ parsed = parseQuery(Without(givenQuery, givenOptions), NoPatterns(givenOptions))
        \/ Rejected("A parallel query key must be the unique entry of an object")

\* with ignoreKeys /^_/ and acceptKeys "_id", of the keys _id and _password the
\* first is retained and the second is stripped
C12_Witness ==
    /\ Returned
    /\ givenOptions.ignoreKeys = RegExp(<<"_">>)
    /\ givenOptions.acceptKeys = Str(<<"_", "id">>)
    /\ givenQuery = Obj(<<Entry(<<"_", "id">>, True), Entry(<<"_", "password">>, True)>>)
    /\ Len(parsed.nestedExpressions.f) = 1
    /\ parsed.nestedExpressions.f[1].k = <<"_", "id">>
    /\ parsed.nestedExpressions.f[1].v.sourceKey = <<"_", "id">>

\* a key whose target only matches ignoreKeys is kept
C12_WitnessTarget ==
    /\ Returned
    /\ givenOptions.ignoreKeys = RegExp(<<"_">>)
    /\ givenOptions.acceptKeys = Undefined
    /\ givenQuery = Obj(<<Entry(<<"username", "=", ">", "_", "id">>, True)>>)
    /\ parsed.nestedExpressions # Undefined
    /\ parsed.nestedExpressions.f[1].k = <<"_", "id">>

\* a dropped key takes a sub-query with it that parseQuery would refuse
C12_WitnessSubquery ==
    /\ Returned
    /\ HasKey(givenQuery, <<"_", "user">>)
    /\ parseQuery(givenQuery, NoPatterns(givenOptions)).kind = "error"

\* ------------------------------------------------------------------ C16

IgnoresBuiltInKeys(opts) == opts.ignoreBuiltInKeys # Bool(FALSE)
IsBuiltIn(key) == IsUserKey(key) /\ SourcePart(key) \in getBuiltInKeys

RECURSIVE WithoutBuiltIn(_)
\* query q without the user keys whose source part is a built-in key, at every depth
WithoutBuiltIn(q) ==
    IF q.t = "array"
    THEN Arr([i \in 1..Len(q.items) |-> WithoutBuiltIn(q.items[i])])
    ELSE IF IsSoleParallel(q)
    THEN Obj(<<Entry(q.f[1].k,
                     Arr([i \in 1..Len(q.f[1].v.items) |->
                             WithoutBuiltIn(q.f[1].v.items[i])]))>>)
    ELSE IF q.t = "object"
    THEN LET Kept(e) == ~IsBuiltIn(e.k)
             kept == SelectSeq(q.f, Kept)
         IN  Obj([i \in 1..Len(kept) |->
                     IF IsUserKey(kept[i].k)
                     THEN Entry(kept[i].k, WithoutBuiltIn(kept[i].v))
                     ELSE kept[i]])
    ELSE q

\* no later entry of q that the patterns keep has the target of entry i
IsLastOnTarget(q, i, opts) ==
    \A j \in UserKeys(q) :
        j > i /\ ~LeftOut(q.f[j].k, opts) => TargetPart(q.f[j].k) # TargetPart(q.f[i].k)

Proto == <<"_", "_", "proto", "_", "_">>

\* the child of node e under the target of key, NoExpr if it has none
ChildOf(e, key) ==
    IF TargetPart(key) = <<>>
    THEN (IF e.nextExpression = Undefined THEN NoExpr ELSE e.nextExpression)
    ELSE IF e.nestedExpressions = Undefined THEN NoExpr
    ELSE LET at == { j \in 1..Len(e.nestedExpressions.f) :
                         e.nestedExpressions.f[j].k = TargetPart(key) }
         IN  IF at = {} THEN NoExpr ELSE e.nestedExpressions.f[CHOOSE j \in at : TRUE].v

RECURSIVE KeepsBuiltIn(_, _, _)
\* in expression e, parsed from query q, every built-in key of q that the patterns
\* keep has its child
KeepsBuiltIn(e, q, opts) ==
    IF e.kind \in {"seq", "par"}
    THEN LET items == IF q.t = "array" THEN q.items ELSE q.f[1].v.items
         IN  \A i \in 1..Len(e.els) : KeepsBuiltIn(e.els[i], items[i], opts)
    ELSE q.t = "object" =>
             \A i \in UserKeys(q) :
                 LET key == q.f[i].k
                     child == ChildOf(e, key)
                 IN  ~LeftOut(key, opts) /\ IsLastOnTarget(q, i, opts)
                                         /\ TargetPart(key) # Proto =>
                         /\ child # NoExpr
                         /\ child.kind = "node" => child.sourceKey = SourcePart(key)
                         /\ KeepsBuiltIn(child, q.f[i].v, opts)

\* C16: with ignoreBuiltInKeys on (the default), parseQuery answers as it answers,
\* with ignoreBuiltInKeys off, the query from which every user key whose source
\* part is a built-in key is removed, whatever acceptKeys says; with
\* ignoreBuiltInKeys off, every such key that the patterns keep has its child in
\* the expression. (A dropped key still counts as an entry beside "||".)
C16_AcceptKeysDoesNotOverrideBuiltIn ==
    /\ Parsed /\ IgnoresBuiltInKeys(givenOptions) =>
           \/ parsed = parseQuery(WithoutBuiltIn(givenQuery),
                                  [givenOptions EXCEPT !.ignoreBuiltInKeys = Bool(FALSE)])
           \/ Rejected("A parallel query key must be the unique entry of an object")
    /\ Returned /\ ~IgnoresBuiltInKeys(givenOptions) =>
           KeepsBuiltIn(parsed, givenQuery, givenOptions)

\* hasOwnProperty, named by acceptKeys, is dropped beside a key that is kept
C16_Witness ==
    /\ Returned
    /\ IgnoresBuiltInKeys(givenOptions)
    /\ MatchesOneOf(<<"hasOwnProperty">>, givenOptions.acceptKeys)
    /\ givenQuery.t = "object"
    /\ Len(givenQuery.f) = 2
    /\ givenQuery.f[1].k = <<"hasOwnProperty">>
    /\ givenQuery.f[2].k = <<"username">>
    /\ Len(parsed.nestedExpressions.f) = 1
    /\ parsed.nestedExpressions.f[1].k = <<"username">>

\* with ignoreBuiltInKeys off the same key is kept
C16_WitnessOff ==
    /\ Returned
    /\ ~IgnoresBuiltInKeys(givenOptions)
    /\ MatchesOneOf(<<"hasOwnProperty">>, givenOptions.acceptKeys)
    /\ givenQuery.t = "object"
    /\ Len(givenQuery.f) = 2
    /\ givenQuery.f[1].k = <<"hasOwnProperty">>
    /\ givenQuery.f[2].k = <<"username">>
    /\ Len(parsed.nestedExpressions.f) = 2
    /\ parsed.nestedExpressions.f[1].k = <<"hasOwnProperty">>
    /\ parsed.nestedExpressions.f[1].v.params # Undefined

\* ------------------------------------------------------------------ C13

\* member i of the query object has a key and a sourceValue
Sourcing(i) ==
    /\ expression.kind = "node"
    /\ Members[i].kind = "node"
    /\ Members[i].sourceKey # ""
    /\ Members[i].sourceValue # Undefined
\* what was asked of the host under member i: in its children, its next expression,
\* the elements it selects
Beneath(i) == { j \in Events : Len(log[j].pid) > 1 /\ log[j].pid[1] = i }
\* a promise is awaited at the node pid
Waits(pid) ==
    \E path \in Pending(task) :
        LET leaf == Open(task, path, <<>>).leaf
        IN  leaf.k \in {"wauth", "wval"} /\ leaf.pid = pid
\* before anything was asked under member i, ev happened at its node
First(i, ev) == \E j \in Events : IsAt(j, ev, <<i>>) /\ \A k \in Beneath(i) : j < k
\* the node without its key, to be evaluated with the sourceValue as its target
Descent(u) == [u EXCEPT !.sourceKey = "", !.params = FALSE, !.sourceValue = Undefined]

\* C13: a node with a key and a sourceValue resolves its key first: the authorizer
\* is asked and has allowed, and a method is called and its promise awaited, before
\* anything is evaluated under the node; a refusal or an error of that resolution
\* fails the node with nothing evaluated under it; then the node yields what its
\* children, its next expression and its selector yield with the sourceValue, not the
\* resolved value, as their target.
C13_KeyResolvedThenSourceValueUsed ==
    \A i \in 1..Len(Members) :
        Sourcing(i) =>
            LET u == Members[i]
                value == Get(rootTarget, u.sourceKey)
            IN  /\ Beneath(i) # {} =>
                       /\ First(i, IF u.params THEN "evaluateMethod" ELSE "evaluateAttribute")
                       /\ options.authorizer # "none" /\ (u.params => value # Undefined)
                              => First(i, "authorize") /\ First(i, "allowed")
                       /\ u.params /\ value # Undefined => First(i, "call")
                       /\ ~u.params => First(i, "get")
                       /\ ~Happened("error", <<i>>)
                /\ Waits(<<i>>) => Beneath(i) = {}
                /\ Happened("refused", <<i>>) =>
                       FailedWith(i, IF u.params THEN NotAllowedCall ELSE NotAllowedGet)
                /\ ThrowingMethod(u) /\ Happened("call", <<i>>) /\ ~Waits(<<i>>) =>
                       FailedWith(i, value.v.s)
                /\ MissingMethod(u) /\ ~u.isOptional /\ Happened("evaluateMethod", <<i>>) =>
                       FailedWith(i, MethodNotFound)
                /\ Settled /\ task.k = "val" /\ ~Happened("error", <<i>>) =>
                       task.v.f[i].v = Result(u.sourceValue, Descent(u), options).v

\* the authorizer allowed a method with a sourceValue, the method was called and its
\* promise awaited, and the node yielded the title of the sourceValue
C13_Witness ==
    /\ \E i \in 1..Len(Members) :
          /\ Sourcing(i)
          /\ Members[i].params
          /\ rootTarget = root
          /\ Members[i].sourceKey = "count"
          /\ Members[i].useCollectionElements = NoElements
          /\ First(i, "allowed")
          /\ First(i, "call")
          /\ Settled
          /\ task.k = "val"
          /\ task.v.f[i].v = Obj(<<Entry("title", Str("Avatar"))>>)
    /\ options.authorizer = "async"

\* the authorizer refused the key of a node with a sourceValue, and the node failed
C13_WitnessRefused ==
    \E i \in 1..Len(Members) :
        /\ Sourcing(i)
        /\ Happened("refused", <<i>>)
        /\ Beneath(i) = {}
        /\ Settled
        /\ task = Err(NotAllowedGet)

\* an element of the sourceValue was selected, not one of the collection the key names
C13_WitnessSelector ==
    \E i \in 1..Len(Members) :
        /\ Sourcing(i)
        /\ Members[i].useCollectionElements = Range(<<1>>)
        /\ Settled
        /\ task.k = "val"
        /\ task.v.f[i].v = Arr(<<Obj(<<Entry("title", Str("Avatar"))>>)>>)

\* ------------------------------------------------------------------ C14

MissingItem == "Cannot execute a query on a missing collection item"
\* member i of the query object reads a collection of the host, selects one element
\* of it and goes on under that element
SelectsOne(i) ==
    /\ expression.kind = "node"
    /\ Members[i].kind = "node"
    /\ ~Members[i].params
    /\ Members[i].sourceValue = Undefined
    /\ Members[i].useCollectionElements.k = "index"
    /\ Members[i].nested # <<>> \/ Members[i].next # NoExpr
    /\ Get(rootTarget, Members[i].sourceKey).t = "array"
    /\ Happened("get", <<i>>)
\* the element a scalar selector names: a negative index counts from the end
Selected(collection, index) ==
    LET n == Len(collection.items)
        rebased == IF index < 0 THEN n + index ELSE index
    IN  IF rebased >= 0 /\ rebased < n THEN collection.items[rebased + 1] ELSE Undefined
\* what the children of u, or its next expression, yield with target as their target
Onward(target, u, opt) ==
    IF u.next # NoExpr THEN Result(target, u.next, opt).v
    ELSE Obj([j \in 1..Len(u.nested) |->
                 Entry(u.nested[j].k, Result(target, u.nested[j].v, opt).v)])

\* C14: a node that selects one element with index i and has children or a next
\* expression evaluates them with collection[i], or collection[length + i] when i is
\* negative, as their target; when there is no such element (a hole, an index still
\* negative or not below length), the node yields undefined with nothing evaluated
\* under it if it is optional, and fails with the missing-item error otherwise.
C14_IndexSelectsOneElement ==
    \A i \in 1..Len(Members) :
        SelectsOne(i) =>
            LET u == Members[i]
                element == Selected(Get(rootTarget, u.sourceKey), u.useCollectionElements.i)
            IN  IF element # Undefined
                THEN /\ ~Happened("error", <<i>>)
                     /\ Settled /\ task.k = "val" /\ ~RaisedUnder(i) =>
                            task.v.f[i].v = Onward(element, u, options)
                ELSE /\ Beneath(i) = {}
                     /\ IF u.isOptional
                        THEN /\ ~RaisedUnder(i)
                             /\ Settled /\ task.k = "val" => task.v.f[i].v = Undefined
                        ELSE FailedWith(i, MissingItem)

\* index -2 of two movies selected the first one
C14_Witness ==
    \E i \in 1..Len(Members) :
        /\ SelectsOne(i)
        /\ Members[i].useCollectionElements.i = -2
        /\ Settled
        /\ task.k = "val"
        /\ Get(task.v.f[i].v, "title") = Str("Inception")

\* index -3 of two movies is still negative: an optional node yields undefined
C14_WitnessOptional ==
    \E i \in 1..Len(Members) :
        /\ SelectsOne(i)
        /\ Members[i].useCollectionElements.i = -3
        /\ Members[i].isOptional
        /\ Settled
        /\ task.k = "val"
        /\ task.v.f[i].v = Undefined

\* the same index fails a node that is not optional
C14_WitnessMissing ==
    /\ \E i \in 1..Len(Members) :
          /\ SelectsOne(i)
          /\ Members[i].useCollectionElements.i = -3
          /\ ~Members[i].isOptional
    /\ Settled
    /\ task = Err(MissingItem)

\* a hole of the collection fails the node as an index outside it does
C14_WitnessHole ==
    /\ \E i \in 1..Len(Members) :
          /\ SelectsOne(i)
          /\ Members[i].sourceKey = "items"
          /\ ~Members[i].isOptional
    /\ Settled
    /\ task = Err(MissingItem)

\* the element selected is a promise: it is the target as it is, not what it
\* resolves to
C14_WitnessPromise ==
    \E i \in 1..Len(Members) :
        /\ SelectsOne(i)
        /\ IsPromise(Selected(Get(rootTarget, Members[i].sourceKey),
                              Members[i].useCollectionElements.i))
        /\ Settled
        /\ task.k = "val"
        /\ task.v.f[i].v = Obj(<<Entry("title", Undefined)>>)

\* ------------------------------------------------------------------ C10, the element picked by an index

RECURSIVE PicksPromise(_)
\* a node of e reads the children of a collection element that is a promise
PicksPromise(e) ==
    IF e.kind \in {"seq", "par"} THEN \E i \in 1..Len(e.els) : PicksPromise(e.els[i])
    ELSE \/ /\ e.useCollectionElements.k = "index"
            /\ e.nested # <<>>
            /\ e.sourceValue = Undefined
            /\ Get(rootTarget, e.sourceKey).t = "array"
            /\ IsPromise(Selected(Get(rootTarget, e.sourceKey), e.useCollectionElements.i))
         \/ \E i \in 1..Len(e.nested) : PicksPromise(e.nested[i].v)
         \/ e.next # NoExpr /\ PicksPromise(e.next)

\* what C10 states holds of every evaluation but those: a promise picked by an index
\* is handed to the children as it is (runtime.ts:113, 148-152)
C10_AsyncWherePromisesAreAwaited == ~PicksPromise(expression) => C10_AsyncOnlyWhenNeeded

\* lazyMovies[-1] {title} over promises returned at once, with no title
C10_WitnessUnawaited ==
    /\ PicksPromise(expression)
    /\ rootTarget = root
    /\ options.authorizer = "none"
    /\ ret = "value"
    /\ task.k = "val"
    /\ Occurs(Obj(<<Entry("title", Undefined)>>), task.v)
    /\ SyncResult.k = "val"
    /\ ~Occurs(Obj(<<Entry("title", Undefined)>>), SyncResult.v)

\* ------------------------------------------------------------------ C15

\* member c of the query object reads a collection of the host and selects a range
SelectsRange(c) ==
    /\ c \in RangeChildren
    /\ ~Members[c].params
    /\ Members[c].sourceValue = Undefined
    /\ Get(rootTarget, Members[c].sourceKey).t = "array"
\* where a bound of a slice falls in a collection of n elements
Bound(i, n) == IF i < 0 THEN (IF n + i > 0 THEN n + i ELSE 0) ELSE IF i < n THEN i ELSE n
\* the elements from the first bound (or the start) up to, not including, the second
\* (or the end), in the order of the collection
EndExclusive(items, r) ==
    LET n == Len(items)
        a == IF Len(r) >= 1 THEN Bound(r[1], n) ELSE 0
        b == IF Len(r) >= 2 THEN Bound(r[2], n) ELSE n
    IN  [k \in 1..(IF b > a THEN b - a ELSE 0) |-> items[a + k]]
\* the node reduced to its children or its next expression, its sourceKey emptied
Remainder(u) ==
    [u EXCEPT !.sourceKey = "", !.isOptional = FALSE, !.useCollectionElements = NoElements]
ElementFailed(c) == \E j \in Events : Is(j, "error") /\ Len(log[j].pid) >= 2 /\ log[j].pid[1] = c

\* C15: a node with a range selector evaluates its children or its next expression,
\* with no key read again, against the elements of the end-exclusive slice of its
\* collection in slice order, element k+1 starting only after element k has its
\* result; and, no element failing, it yields the results of the elements of the
\* slice in slice order.
C15_RangeMapsElementsInOrder ==
    \A c \in 1..Len(Members) :
        SelectsRange(c) =>
            LET u == Members[c]
                slice == EndExclusive(Get(rootTarget, u.sourceKey).items,
                                      u.useCollectionElements.r)
            IN  /\ \A j \in Events :
                       Len(log[j].pid) >= 2 /\ log[j].pid[1] = c =>
                           /\ log[j].pid[2] \in 1..Len(slice)
                           /\ Len(log[j].pid) = 2 => log[j].ev \in {"start", "end", "error",
                                                                      "errorHandler"}
                /\ \A j \in Events : \A k \in 2..Len(slice) :
                       IsAt(j, "start", <<c, k>>) =>
                           \E i \in 1..(j - 1) : IsAt(i, "end", <<c, k - 1>>)
                /\ Happened("end", <<c>>) /\ ~Happened("error", <<c>>) /\ ~ElementFailed(c) =>
                       \A k \in 1..Len(slice) : Happened("end", <<c, k>>)
                /\ Settled /\ task.k = "val" /\ ~Happened("error", <<c>>) /\ ~ElementFailed(c) =>
                       task.v.f[c].v =
                           Arr([k \in 1..Len(slice) |->
                                   Result(slice[k], Remainder(u), options).v])

\* the first element of a slice waits for a rating and the second has not started
C15_Witness ==
    \E c \in 1..Len(Members) :
        /\ SelectsRange(c)
        /\ Len(RangeItems(c)) = 2
        /\ Happened("start", <<c, 1>>)
        /\ ~Happened("end", <<c, 1>>)
        /\ ~Happened("start", <<c, 2>>)
        /\ \E path \in Pending(task) : PendingKind(task, path) = "wval"

\* [0, 1] of two movies yielded the first movie only
C15_WitnessSlice ==
    \E c \in 1..Len(Members) :
        /\ SelectsRange(c)
        /\ Members[c].useCollectionElements.r = <<0, 1>>
        /\ Settled
        /\ task.k = "val"
        /\ task.v.f[c].v = Arr(<<Obj(<<Entry("title", Str("Inception")),
                                        Entry("rating", Str("8.8"))>>)>>)

\* both elements of a slice of promises were evaluated, one after the other
C15_WitnessBoth ==
    \E c \in 1..Len(Members) :
        /\ SelectsRange(c)
        /\ Members[c].sourceKey = "lazyMovies"
        /\ rootTarget = root
        /\ Settled
        /\ task.k = "val"
        /\ Len(task.v.f[c].v.items) = 2
        /\ Get(task.v.f[c].v.items[2], "title") = Str("The Matrix")

\* ------------------------------------------------------------------ C17

\* the errors raised so far
Errors == { j \in Events : Is(j, "error") }
\* the error was raised in the root node
InRoot(j) == log[j].pid = <<>>
\* the error was raised in the next expression of member n of the root's map
InNextOf(j, n) ==
    /\ expression.kind \in {"node", "seq"}
    /\ log[j].pid = <<n, 0>>
\* the error was raised in element i of the parallel array that is member n
InParallelOf(j, n, i) ==
    /\ expression.kind \in {"node", "seq"}
    /\ log[j].pid = <<n, i>>
    /\ Members[n].kind = "par"
\* the error was raised in element i of the parallel array the expression is
InParallel(j, i) == expression.kind = "par" /\ log[j].pid = <<i>>
\* the error was raised in named child n of the root
InNamedChild(j, n) == expression.kind = "node" /\ log[j].pid = <<n>>
\* what member n of the root's map has yielded
Yielded(n) == IF expression.kind = "node" THEN task.v.f[n].v ELSE task.v.items[n]
\* the members after member n have all been evaluated
LaterSiblingsEvaluated(n) == \A k \in (n + 1)..Len(Members) : Happened("end", <<k>>)
Returns == Settled /\ task.k = "val"

\* C17: with an errorHandler, the handler's value replaces an error raised in the root
\* node (it is the result), in a next expression (it is what the parent node
\* yields) and in an element of a parallel array (it is that element's result, the
\* other elements being evaluated all the same), and in the last two cases the
\* members after the parent are still evaluated; an error raised in a named child
\* leaves the children after it unevaluated.
C17_HandledWithoutBreak ==
    options.errorHandler =>
        \A j \in Errors :
            LET error == log[j].key
            IN  /\ InRoot(j) => (Settled => task = Val(HandlerResult(error)))
                /\ \A n \in 1..Len(Members) :
                       /\ InNextOf(j, n) =>
                              /\ Happened("errorHandler", <<n, 0>>)
                              /\ Settled =>
                                     /\ Returns
                                     /\ Yielded(n) = HandlerResult(error)
                                     /\ LaterSiblingsEvaluated(n)
                       /\ \A i \in 1..Len(Members) :
                              InParallelOf(j, n, i) =>
                                  /\ \A k \in 1..Len(Members[n].els) :
                                         Happened("start", <<n, k>>)
                                  /\ Settled =>
                                         /\ Returns
                                         /\ Yielded(n).items[i] = HandlerResult(error)
                                         /\ \A k \in 1..Len(Members[n].els) :
                                                Happened("end", <<n, k>>)
                                         /\ LaterSiblingsEvaluated(n)
                       /\ InParallel(j, n) =>
                              /\ \A k \in 1..Len(Members) : Happened("start", <<k>>)
                              /\ Settled =>
                                     /\ Returns
                                     /\ task.v.items[n] = HandlerResult(error)
                                     /\ \A k \in 1..Len(Members) : Happened("end", <<k>>)
                       /\ InNamedChild(j, n) =>
                              \A k \in (n + 1)..Len(Members) : ~Happened("start", <<k>>)

\* the next expression of the first key failed: the key yields the handler's value
\* and the second key was evaluated
C17_Witness ==
    /\ options.errorHandler
    /\ expression.kind = "node"
    /\ Len(Members) = 2
    /\ \E j \in Errors : InNextOf(j, 1) /\ log[j].key = NotAllowedGet
    /\ Returns
    /\ Yielded(1) = HandlerResult(NotAllowedGet)
    /\ Yielded(2) = Str("steve")

\* an element of a parallel array under the first key failed
C17_WitnessParallel ==
    /\ options.errorHandler
    /\ expression.kind = "node"
    /\ Len(Members) = 2
    /\ \E j \in Errors : InParallelOf(j, 1, 1) /\ log[j].key = "sync error"
    /\ Returns
    /\ Yielded(1) = Arr(<<HandlerResult("sync error"), Str("steve")>>)
    /\ Yielded(2) = Str("steve")

\* the root node failed: the handler's value is the result
C17_WitnessRoot ==
    /\ options.errorHandler
    /\ \E j \in Errors : InRoot(j)
    /\ Settled
    /\ task = Val(HandlerResult("async error"))

\* a named child failed: the handler's value ends the map
C17_WitnessNamedChild ==
    /\ options.errorHandler
    /\ Len(Members) = 2
    /\ \E j \in Errors : InNamedChild(j, 1)
    /\ Returns
    /\ Len(task.v.f) = 1

====
